---------------------------- MODULE Spec2Model ----------------------------
(***************************************************************************)
(* Model of the SEO audit pipeline: the retrieval layer (fetchWithProxy /  *)
(* fetchWithTimeout) and the five analyzers (TechnicalSEOAnalyzer,         *)
(* PageSpeedAnalyzer, QuickWinsAnalyzer, BlogContentAnalyzer,              *)
(* SiteAnalyzer).                                                          *)
(*                                                                         *)
(* Two groups of variables share the module.  SpecFetch runs one           *)
(* fetchWithProxy call attempt by attempt, with a clock.  Spec and         *)
(* SpecOverlap run analyze calls on one analyzer instance; there a         *)
(* fetchWithProxy call is one await whose outcome (a retrieval result or   *)
(* the "All proxy attempts failed" error) is an input.  SpecSession adds   *)
(* what the application does with the Reports between the calls.  SpecLive *)
(* runs one analyze call together with the fetchWithProxy calls it makes.  *)
(***************************************************************************)
EXTENDS Integers, Sequences, FiniteSets, TLC

VARIABLES
    \* ---- retrieval layer (one fetchWithProxy call) ----
    fpc,          \* position of the call: idle, fetching, reading, returned, thrown
    target,       \* current attempt: 0 = direct request, i = corsProxies[i]
    now,          \* the clock (Date.now()), in ms
    startTime,    \* const startTime = Date.now() of fetchWithProxy
    attemptStart, \* clock value at which the current fetchWithTimeout was called
    timerArmed,   \* the setTimeout(() => controller.abort(), timeout) is pending
    respStatus,   \* response.status of the response being read
    log,          \* history: the finished attempts, in order
    fresult,      \* what fetchWithProxy returned (a sequence of 0 or 1 results)
    \* ---- analyzers (one analyzer instance) ----
    modName,      \* which analyzer class the instance is
    input,        \* the url given to analyze* and what the network serves for it
    allChecks,    \* this.allChecks: a reference to an array of the heap
    heap,         \* the arrays allocated for this.allChecks, by reference
    calls,        \* the analyze* invocations: their position and locals
    reports,      \* the Reports returned so far, in order of return
    \* ---- presentation layer ----
    csvContent,   \* what the last export wrote: the Report exported and the text
    \* ---- an analyze call and the retrieval layer together ----
    awaits        \* the fetchWithProxy calls of the analyze call: how many have settled,
                  \* and how those still to come will settle

fetchVars == <<fpc, target, now, startTime, attemptStart, timerArmed, respStatus, log, fresult>>
analyzeVars == <<modName, input, allChecks, heap, calls, reports, csvContent, awaits>>
vars == <<fetchVars, analyzeVars>>

(***************************************************************************)
(* Generic helpers on sequences.                                           *)
(***************************************************************************)
Max(a, b) == IF a >= b THEN a ELSE b
Min(a, b) == IF a <= b THEN a ELSE b

Range(s) == {s[i] : i \in DOMAIN s}

(***************************************************************************)
(* RETRIEVAL LAYER                                                         *)
(***************************************************************************)
\* private corsProxies = [...]: the relay endpoints in their list order
corsProxies == <<"api.allorigins.win", "corsproxy.io", "cors-anywhere.herokuapp.com", "thingproxy.freeboard.io">>

\* this.fetchWithTimeout(url, 5000): budget of the direct attempt, ms
DirectTimeout == 5000
\* fetchWithProxy(url, timeout = 15000): budget of a relay attempt, ms
ProxyTimeout == 15000

\* How long the network takes to answer a request, or to deliver a body, in ms.
\* One value is below both budgets and one is above both.
Latencies == {1000, 20000}
\* HTTP status codes a server or relay answers with
Statuses == {200, 404}
\* data.status?.http_code of the allorigins envelope; 0 stands for "absent"
HttpCodes == {0, 200, 404}

TimeoutOf(t) == IF t = 0 THEN DirectTimeout ELSE ProxyTimeout

\* proxy.includes('allorigins.win')
IsAllOrigins(t) == t >= 1 /\ corsProxies[t] = "api.allorigins.win"

\* every other endpoint of the list is passed over
NextTargetSkipping(t) == t + 2

\* the attempt made after attempt t has failed: the next entry of corsProxies
NextTarget(t) == t + 1

\* status = data.status?.http_code || 200
EnvelopeStatus(code) == IF code = 0 THEN 200 ELSE code

\* fetchWithTimeout is entered: new AbortController, setTimeout(abort, timeout), fetch()
BeginAttempt(t, at) ==
    /\ target' = t
    /\ attemptStart' = at
    /\ timerArmed' = TRUE
    /\ fpc' = "fetching"

\* catch (directError) / catch (error) { continue }: the attempt is over at time
\* `at`; the loop goes on to the next relay, or falls out of the loop and throws
AttemptFailed(at) ==
    /\ log' = Append(log, [target |-> target, start |-> attemptStart, end |-> at, ok |-> FALSE])
    /\ IF target < Len(corsProxies)
          THEN BeginAttempt(NextTarget(target), at)
          ELSE /\ fpc' = "thrown"
               /\ timerArmed' = FALSE
               /\ UNCHANGED <<target, attemptStart>>

\* fetchWithProxy is called: startTime is taken and the direct attempt starts
FetchWithProxy ==
    /\ fpc = "idle"
    /\ startTime' = now
    /\ BeginAttempt(0, now)
    /\ UNCHANGED <<now, respStatus, log, fresult>>

\* await fetch(...) resolves before the timer fires: clearTimeout, return response
ResponseArrives ==
    /\ fpc = "fetching"
    /\ \E d \in Latencies, s \in Statuses :
          /\ d < TimeoutOf(target)
          /\ now' = now + d
          /\ respStatus' = s
    /\ timerArmed' = FALSE
    /\ fpc' = "reading"
    /\ UNCHANGED <<target, startTime, attemptStart, log, fresult>>

\* await fetch(...) rejects before the timer fires (network error, CORS):
\* clearTimeout, rethrow, and fetchWithProxy's catch takes over
FetchRejects ==
    /\ fpc = "fetching"
    /\ \E d \in Latencies :
          /\ d < TimeoutOf(target)
          /\ now' = now + d
          /\ AttemptFailed(now + d)
    /\ UNCHANGED <<startTime, respStatus, fresult>>

\* the timer fires while fetch() is pending: controller.abort() rejects the fetch
TimerFires ==
    /\ fpc = "fetching"
    /\ timerArmed
    /\ now' = attemptStart + TimeoutOf(target)
    /\ AttemptFailed(attemptStart + TimeoutOf(target))
    /\ UNCHANGED <<startTime, respStatus, fresult>>

\* the elapsed time is counted from the call of the attempt that returns
loadTimeOriginOfAttempt == attemptStart

\* loadTime: Date.now() - startTime: the origin is the startTime of fetchWithProxy
loadTimeOrigin == startTime

\* await response.text() / response.json() resolves: the result is returned.
\* The timer was cleared when the response arrived, so nothing bounds d.
BodyResolves ==
    /\ fpc = "reading"
    /\ \E d \in Latencies, code \in HttpCodes :
          /\ now' = now + d
          /\ log' = Append(log, [target |-> target, start |-> attemptStart, end |-> now + d, ok |-> TRUE])
          /\ fresult' = <<[html |-> target,
                           status |-> IF IsAllOrigins(target) THEN EnvelopeStatus(code) ELSE respStatus,
                           loadTime |-> (now + d) - loadTimeOrigin]>>
    /\ fpc' = "returned"
    /\ UNCHANGED <<target, startTime, attemptStart, timerArmed, respStatus>>

\* await response.text() / response.json() rejects (broken stream, invalid JSON)
BodyRejects ==
    /\ fpc = "reading"
    /\ \E d \in Latencies :
          /\ now' = now + d
          /\ AttemptFailed(now + d)
    /\ UNCHANGED <<startTime, respStatus, fresult>>

(***************************************************************************)
(* DATA MODEL OF THE ANALYZERS                                             *)
(***************************************************************************)
\* A url is the sequence of its parts; a scheme, when there is one, is the
\* first part.  url.startsWith(prefix) looks at the first part.
StartsWith(url, prefix) == Len(url) > 0 /\ url[1] = prefix

\* if (!url.startsWith('http://') && !url.startsWith('https://')) url = 'https://' + url
NormalizeUrl(url) ==
    IF ~StartsWith(url, "http://") /\ ~StartsWith(url, "https://")
       THEN <<"https://">> \o url
       ELSE url

\* An a[href] element.  abs: the href starts with 'http' (scheme and host are
\* then its own); otherwise the href is the path /dir/slug.  text: the link
\* text contains one of the blog keywords.
Link(abs, scheme, host, dir, slug, text) ==
    [abs |-> abs, scheme |-> scheme, host |-> host, dir |-> dir, slug |-> slug, text |-> text]

\* String.prototype.toLowerCase, and the case folding of the /i patterns, on the
\* spellings the inputs use
ToLowerCase(s) ==
    IF s = "EXAMPLE.COM" THEN "example.com"
    ELSE IF s = "Blog" THEN "blog"
    ELSE s

\* The host a URL parser reads in the part behind the scheme: it is lower-cased;
\* in 'https://HTTPS://example.com' the host is the 'HTTPS' in front of the
\* second colon and '//example.com' is the path.
ParsedHost(part) == IF part = "HTTPS://" THEN "https" ELSE ToLowerCase(part)

\* new URL(u).hostname
Hostname(u) == ParsedHost(u.host)

\* new URL(u).href: the serialisation of the parsed url; the path stays as written
Href(u) == [u EXCEPT !.host = ParsedHost(u.host)]

\* new URL(url).href of a normalised url: scheme, lower-cased host and path; the
\* path of 'https://example.com' is '/', that of 'https://HTTPS://example.com'
\* is '//example.com'
currentUrlObj(url) ==
    [scheme |-> url[1], host |-> ParsedHost(url[2]),
     dir |-> IF Len(url) > 2 THEN url[3] ELSE "", slug |-> 0]

\* new URL(canonicalUrl, url).href: an absolute href is parsed by itself, a
\* relative one replaces the path of url
canonicalUrlObj(canonicalUrl, url) ==
    IF canonicalUrl.abs
       THEN Href([scheme |-> canonicalUrl.scheme, host |-> canonicalUrl.host,
                  dir |-> canonicalUrl.dir, slug |-> canonicalUrl.slug])
       ELSE [currentUrlObj(url) EXCEPT !.dir = canonicalUrl.dir, !.slug = canonicalUrl.slug]

\* An Issue literal of an evaluator (the fields the aggregator, the scorer and the
\* presentation layer read).  n is the number interpolated into the message.
Issue(type, category, priority, actionable, checkName, status, text, n) ==
    [type |-> type, category |-> category, priority |-> priority,
     actionable |-> actionable, checkName |-> checkName, status |-> status,
     message |-> [text |-> text, n |-> n]]

\* The record this.addCheck(name, status, description, result, ...) pushes.
\* by is history: the invocation whose code made the push.
CheckRecord(name, status, text, n, by) ==
    [name |-> name, status |-> status, result |-> [text |-> text, n |-> n], by |-> by]

\* What one evaluator call does when it returns: the issues it returns, the
\* records it pushed.  An evaluator that raises instead has raised = TRUE, no
\* issues (its local array is lost) and the records it pushed before raising.
Outcome(issues, checks) == [issues |-> issues, checks |-> checks, raised |-> FALSE]

RECURSIVE IssuesOf(_)
\* issues.push(...evaluator()) over the evaluators that ran
IssuesOf(outs) == IF outs = <<>> THEN <<>> ELSE Head(outs).issues \o IssuesOf(Tail(outs))

RECURSIVE ChecksOf(_)
\* the this.addCheck pushes of the evaluators that ran, in order
ChecksOf(outs) == IF outs = <<>> THEN <<>> ELSE Head(outs).checks \o ChecksOf(Tail(outs))

\* an exception leaves the try block: some evaluator raised
Raised(outs) == \E i \in DOMAIN outs : outs[i].raised

\* the evaluator calls that were made: all of them, or when one raised, those up
\* to and including it (the statements behind it in the try block are skipped)
Ran(outs) ==
    IF Raised(outs)
       THEN SubSeq(outs, 1, CHOOSE i \in DOMAIN outs : outs[i].raised /\ \A j \in 1..(i - 1) : ~outs[j].raised)
       ELSE outs

\* nothing is filtered out
KeepAll(issues) == issues

\* issues.filter(issue => issue.actionable)
FilterActionable(issues) == SelectSeq(issues, LAMBDA i : i.actionable)

\* only the upper end is held
ClampAbove(score) == Min(100, score)

\* score = Math.max(0, Math.min(100, score))
Clamp(score) == Max(0, Min(100, score))

Types == {"error", "warning", "info", "success"}
Priorities == {"high", "medium", "low"}

RECURSIVE SumDeductions(_, _)
\* issues.forEach(issue => { switch (issue.type) ... score -= ... }): the total
\* taken from 100, deduct being the switch as a function of <<type, priority>>
SumDeductions(issues, deduct) ==
    IF issues = <<>> THEN 0
    ELSE deduct[<<Head(issues).type, Head(issues).priority>>] + SumDeductions(Tail(issues), deduct)

\* The parsed document (DOMParser.parseFromString), as what the selectors of the
\* analyzers find in it.
\*   robots    <<>> or <<S>>: meta[name=robots] and the directives its content includes
\*   canonical "absent" | "empty" | "invalid" | "href": link[rel=canonical] is
\*             missing, has no or an empty href, has an href new URL() throws
\*             on, or has the href canonicalHref (see Link)
\*   title     <<>> or <<[len, trimLen, chars]>>: textContent, see TextOf
\*   desc      <<>> or <<[len, trimLen, chars]>>: meta[name=description] content
\*   headings  tag levels of h1..h6 in document order
\*   jsonld    per script[type=application/ld+json]: "valid" (parses, has @context and
\*             @type), "nofields" (parses, lacks one), "unparseable"
\*   og        the og: properties present
\*   images    per img: has alt, has loading=lazy, has width or height
\*   links     per a[href]: see Link
\*   words     the number of words of the main content element
\* A string whose characters matter is the sequence of its pieces: a piece is a
\* double quote, a comma, a line break, or a run of other characters.
Quote == "\""
Comma == ","
Newline == "\n"

\* textContent / getAttribute('content') of an element: its length, its trimmed
\* length and its characters
TextOf(len, trimLen, chars) == <<[len |-> len, trimLen |-> trimLen, chars |-> chars]>>

Text(len, trimLen) == TextOf(len, trimLen, <<"text">>)

EmptyDoc ==
    [robots |-> <<>>, canonical |-> "absent", canonicalHref |-> Link(FALSE, "", "", "", 0, FALSE), title |-> <<>>, desc |-> <<>>,
     viewport |-> FALSE, lang |-> FALSE, headings |-> <<>>, jsonld |-> <<>>,
     og |-> {}, stylesheets |-> 0, syncScripts |-> 0, images |-> <<>>,
     nav |-> FALSE, breadcrumbs |-> FALSE, links |-> <<>>, words |-> 0]

OgAll == {"og:title", "og:description", "og:image", "og:url"}

CountOf(s, v) == Cardinality({i \in DOMAIN s : s[i] = v})

(***************************************************************************)
(* TechnicalSEOAnalyzer: the check evaluators                              *)
(***************************************************************************)
\* HTTP Status Code check of analyzeIndexability
checkHttpStatus(status, by) ==
    IF status >= 400 THEN
        Outcome(<<Issue("error", "indexability", "high", TRUE, "HTTP Status Code", "failed", "HTTP error - Page not accessible", status)>>,
                <<CheckRecord("HTTP Status Code", "failed", "Error", status, by)>>)
    ELSE IF status >= 300 /\ status < 400 THEN
        Outcome(<<Issue("warning", "redirects", "medium", TRUE, "HTTP Status Code", "warning", "HTTP redirect detected", status)>>,
                <<CheckRecord("HTTP Status Code", "warning", "Redirect", status, by)>>)
    ELSE
        Outcome(<<Issue("success", "indexability", "low", FALSE, "HTTP Status Code", "passed", "HTTP - Page accessible", status)>>,
                <<CheckRecord("HTTP Status Code", "passed", "Success", status, by)>>)

\* HTTPS check of analyzeIndexability
checkHttps(url, by) ==
    IF ~StartsWith(url, "https://") THEN
        Outcome(<<Issue("error", "security", "high", TRUE, "HTTPS Security", "failed", "Site not using HTTPS", 0)>>,
                <<CheckRecord("HTTPS Security", "failed", "HTTP only", 0, by)>>)
    ELSE
        Outcome(<<Issue("success", "security", "low", FALSE, "HTTPS Security", "passed", "HTTPS enabled", 0)>>,
                <<CheckRecord("HTTPS Security", "passed", "HTTPS enabled", 0, by)>>)

\* Robots Meta Tag check of analyzeIndexability
checkRobotsMeta(doc, by) ==
    IF doc.robots # <<>> THEN
        LET robotsContent == doc.robots[1]
            indexing ==
                IF "noindex" \in robotsContent THEN
                    Outcome(<<Issue("error", "indexability", "high", TRUE, "Robots Meta - Indexing", "failed", "Page blocked from indexing (noindex)", 0)>>,
                            <<CheckRecord("Robots Meta - Indexing", "failed", "noindex directive found", 0, by)>>)
                ELSE
                    Outcome(<<>>, <<CheckRecord("Robots Meta - Indexing", "passed", "No noindex directive", 0, by)>>)
            following ==
                IF "nofollow" \in robotsContent THEN
                    Outcome(<<Issue("warning", "crawlability", "medium", TRUE, "Robots Meta - Following", "warning", "Links blocked from following (nofollow)", 0)>>,
                            <<CheckRecord("Robots Meta - Following", "warning", "nofollow directive found", 0, by)>>)
                ELSE
                    Outcome(<<>>, <<CheckRecord("Robots Meta - Following", "passed", "No nofollow directive", 0, by)>>)
        IN  Outcome(indexing.issues \o following.issues, indexing.checks \o following.checks)
    ELSE
        Outcome(<<Issue("success", "indexability", "low", FALSE, "Robots Meta", "passed", "No robots restrictions found", 0)>>,
                <<CheckRecord("Robots Meta - Indexing", "passed", "No robots restrictions", 0, by),
                  CheckRecord("Robots Meta - Following", "passed", "No robots restrictions", 0, by)>>)

analyzeIndexability(doc, url, status, by) ==
    LET outs == <<checkHttpStatus(status, by), checkHttps(url, by), checkRobotsMeta(doc, by)>>
    IN  Outcome(IssuesOf(outs), ChecksOf(outs))

\* only the hosts are compared
differentHost(canonicalHref, currentHref) == canonicalHref.host # currentHref.host

\* canonicalUrlObj.href !== currentUrlObj.href
differentHref(canonicalHref, currentHref) == canonicalHref # currentHref

analyzeCanonicalization(doc, url, by) ==
    IF doc.canonical = "absent" THEN
        Outcome(<<Issue("warning", "canonicalization", "medium", TRUE, "Canonical Tag", "warning", "Missing canonical tag", 0)>>,
                <<CheckRecord("Canonical Tag", "warning", "Missing canonical tag", 0, by)>>)
    ELSE IF doc.canonical = "empty" THEN
        Outcome(<<Issue("error", "canonicalization", "high", TRUE, "Canonical Tag", "failed", "Empty canonical tag", 0)>>,
                <<CheckRecord("Canonical Tag", "failed", "Empty canonical tag", 0, by)>>)
    ELSE IF doc.canonical = "invalid" THEN
        Outcome(<<Issue("error", "canonicalization", "high", TRUE, "Canonical Tag", "failed", "Invalid canonical URL format", 0)>>,
                <<CheckRecord("Canonical Tag", "failed", "Invalid URL format", 0, by)>>)
    ELSE IF differentHref(canonicalUrlObj(doc.canonicalHref, url), currentUrlObj(url)) THEN
        Outcome(<<Issue("info", "canonicalization", "low", FALSE, "Canonical Tag", "info", "Canonical points to different URL", 0)>>,
                <<CheckRecord("Canonical Tag", "info", "Points to different URL", 0, by)>>)
    ELSE
        Outcome(<<Issue("success", "canonicalization", "low", FALSE, "Canonical Tag", "passed", "Self-referencing canonical tag present", 0)>>,
                <<CheckRecord("Canonical Tag", "passed", "Self-referencing canonical", 0, by)>>)

\* a title of 30 characters counts as too short and one of 60 as too long
checkTitleExclusive(doc, by) ==
    IF doc.title = <<>> \/ doc.title[1].trimLen = 0 THEN
        Outcome(<<Issue("error", "meta", "high", TRUE, "Title Tag", "failed", "Missing title tag", 0)>>,
                <<CheckRecord("Title Tag", "failed", "Missing title tag", 0, by)>>)
    ELSE LET titleLength == doc.title[1].len IN
        IF titleLength <= 30 \/ titleLength >= 60 THEN
            Outcome(<<Issue("warning", "meta", "medium", TRUE, "Title Tag", "warning", "Title too short", titleLength)>>,
                    <<CheckRecord("Title Tag", "warning", "Too short", titleLength, by)>>)
        ELSE
            Outcome(<<Issue("success", "meta", "low", FALSE, "Title Tag", "passed", "Title length optimal", titleLength)>>,
                    <<CheckRecord("Title Tag", "passed", "Optimal length", titleLength, by)>>)

\* Title Tag check of analyzeMetaTags
checkTitle(doc, by) ==
    IF doc.title = <<>> \/ doc.title[1].trimLen = 0 THEN
        Outcome(<<Issue("error", "meta", "high", TRUE, "Title Tag", "failed", "Missing title tag", 0)>>,
                <<CheckRecord("Title Tag", "failed", "Missing title tag", 0, by)>>)
    ELSE LET titleLength == doc.title[1].len IN
        IF titleLength < 30 THEN
            Outcome(<<Issue("warning", "meta", "medium", TRUE, "Title Tag", "warning", "Title too short", titleLength)>>,
                    <<CheckRecord("Title Tag", "warning", "Too short", titleLength, by)>>)
        ELSE IF titleLength > 60 THEN
            Outcome(<<Issue("warning", "meta", "medium", TRUE, "Title Tag", "warning", "Title too long", titleLength)>>,
                    <<CheckRecord("Title Tag", "warning", "Too long", titleLength, by)>>)
        ELSE
            Outcome(<<Issue("success", "meta", "low", FALSE, "Title Tag", "passed", "Title length optimal", titleLength)>>,
                    <<CheckRecord("Title Tag", "passed", "Optimal length", titleLength, by)>>)

\* Meta Description check of analyzeMetaTags
checkMetaDescription(doc, by) ==
    IF doc.desc = <<>> \/ doc.desc[1].trimLen = 0 THEN
        Outcome(<<Issue("error", "meta", "high", TRUE, "Meta Description", "failed", "Missing meta description", 0)>>,
                <<CheckRecord("Meta Description", "failed", "Missing meta description", 0, by)>>)
    ELSE LET descLength == doc.desc[1].len IN
        IF descLength < 120 THEN
            Outcome(<<Issue("warning", "meta", "medium", TRUE, "Meta Description", "warning", "Meta description too short", descLength)>>,
                    <<CheckRecord("Meta Description", "warning", "Too short", descLength, by)>>)
        ELSE IF descLength > 160 THEN
            Outcome(<<Issue("warning", "meta", "medium", TRUE, "Meta Description", "warning", "Meta description too long", descLength)>>,
                    <<CheckRecord("Meta Description", "warning", "Too long", descLength, by)>>)
        ELSE
            Outcome(<<Issue("success", "meta", "low", FALSE, "Meta Description", "passed", "Meta description length optimal", descLength)>>,
                    <<CheckRecord("Meta Description", "passed", "Optimal length", descLength, by)>>)

\* Viewport Meta Tag check of analyzeMetaTags
checkViewport(doc, by) ==
    IF ~doc.viewport THEN
        Outcome(<<Issue("error", "meta", "high", TRUE, "Viewport Meta Tag", "failed", "Missing viewport meta tag", 0)>>,
                <<CheckRecord("Viewport Meta Tag", "failed", "Missing viewport tag", 0, by)>>)
    ELSE
        Outcome(<<Issue("success", "meta", "low", FALSE, "Viewport Meta Tag", "passed", "Viewport meta tag present", 0)>>,
                <<CheckRecord("Viewport Meta Tag", "passed", "Viewport tag present", 0, by)>>)

\* Language Declaration check of analyzeMetaTags
checkLanguage(doc, by) ==
    IF ~doc.lang THEN
        Outcome(<<Issue("warning", "structure", "medium", TRUE, "Language Declaration", "warning", "Missing language declaration", 0)>>,
                <<CheckRecord("Language Declaration", "warning", "Missing lang attribute", 0, by)>>)
    ELSE
        Outcome(<<Issue("success", "structure", "low", FALSE, "Language Declaration", "passed", "Language declared", 0)>>,
                <<CheckRecord("Language Declaration", "passed", "Language", 0, by)>>)

analyzeMetaTags(doc, by) ==
    LET outs == <<checkTitle(doc, by), checkMetaDescription(doc, by), checkViewport(doc, by), checkLanguage(doc, by)>>
    IN  Outcome(IssuesOf(outs), ChecksOf(outs))

\* H1 Tag check of analyzeHeaders
checkH1(doc, by) ==
    LET h1Count == CountOf(doc.headings, 1) IN
    IF h1Count = 0 THEN
        Outcome(<<Issue("error", "headers", "high", TRUE, "H1 Tag", "failed", "Missing H1 tag", 0)>>,
                <<CheckRecord("H1 Tag", "failed", "No H1 tag found", 0, by)>>)
    ELSE IF h1Count > 1 THEN
        Outcome(<<Issue("warning", "headers", "medium", TRUE, "H1 Tag", "warning", "Multiple H1 tags found", h1Count)>>,
                <<CheckRecord("H1 Tag", "warning", "H1 tags found", h1Count, by)>>)
    ELSE
        Outcome(<<Issue("success", "headers", "low", FALSE, "H1 Tag", "passed", "Single H1 tag found", 0)>>,
                <<CheckRecord("H1 Tag", "passed", "Single H1 tag found", 0, by)>>)

\* headers.forEach: currentLevel > previousLevel + 1 for some consecutive pair
hierarchyIssues(headers) ==
    \E i \in 1..(Len(headers) - 1) : headers[i + 1] > headers[i] + 1

\* Header Hierarchy check of analyzeHeaders
checkHierarchy(doc, by) ==
    LET headers == doc.headings IN
    IF Len(headers) > 1 THEN
        IF hierarchyIssues(headers) THEN
            Outcome(<<Issue("warning", "headers", "medium", TRUE, "Header Hierarchy", "warning", "Header hierarchy not properly structured", 0)>>,
                    <<CheckRecord("Header Hierarchy", "warning", "Improper hierarchy detected", 0, by)>>)
        ELSE
            Outcome(<<Issue("success", "headers", "low", FALSE, "Header Hierarchy", "passed", "Header hierarchy properly structured", Len(headers))>>,
                    <<CheckRecord("Header Hierarchy", "passed", "headers properly structured", Len(headers), by)>>)
    ELSE
        Outcome(<<>>, <<CheckRecord("Header Hierarchy", "info", "Insufficient headers for hierarchy analysis", 0, by)>>)

analyzeHeaders(doc, by) ==
    LET outs == <<checkH1(doc, by), checkHierarchy(doc, by)>>
    IN  Outcome(IssuesOf(outs), ChecksOf(outs))

\* a SyntaxError of JSON.parse is not caught
parseJsonLdUnguarded(script) ==
    IF script = "valid" THEN "valid" ELSE IF script = "unparseable" THEN "raise" ELSE "invalid"

\* try { data = JSON.parse(...); data['@context'] && data['@type'] ? valid : invalid }
\* catch (e) { invalid }: what one script counts as ("raise": the exception leaves
\* the forEach)
parseJsonLd(script) == IF script = "valid" THEN "valid" ELSE "invalid"

\* analyzeStructuredData pushing one record per page: the record of the first
\* verdict reached, while the issues stay as they are
analyzeStructuredDataOneRecord(doc, by) ==
    LET parsed == [i \in DOMAIN doc.jsonld |-> parseJsonLd(doc.jsonld[i])]
        validSchemas == CountOf(parsed, "valid")
        invalidSchemas == CountOf(parsed, "invalid")
        first ==
            IF validSchemas = 0 /\ invalidSchemas = 0 THEN
                Outcome(<<Issue("warning", "structure", "medium", TRUE, "Structured Data", "warning", "No structured data found", 0)>>,
                        <<CheckRecord("Structured Data", "warning", "No structured data found", 0, by)>>)
            ELSE IF invalidSchemas > 0 THEN
                Outcome(<<Issue("error", "structure", "high", TRUE, "Structured Data", "failed", "invalid structured data scripts", invalidSchemas)>>,
                        <<CheckRecord("Structured Data", "failed", "invalid schemas", invalidSchemas, by)>>)
            ELSE Outcome(<<>>, <<>>)
        second ==
            IF validSchemas > 0 THEN
                Outcome(<<Issue("success", "structure", "low", FALSE, "Structured Data", "passed", "valid structured data schemas found", validSchemas)>>,
                        <<CheckRecord("Structured Data", "passed", "valid schemas found", validSchemas, by)>>)
            ELSE Outcome(<<>>, <<>>)
    IN  IF \E i \in DOMAIN parsed : parsed[i] = "raise"
           THEN [issues |-> <<>>, checks |-> <<>>, raised |-> TRUE]
           ELSE Outcome(first.issues \o second.issues,
                        IF first.checks # <<>> THEN first.checks ELSE second.checks)

analyzeStructuredData(doc, by) ==
    LET parsed == [i \in DOMAIN doc.jsonld |-> parseJsonLd(doc.jsonld[i])]
        validSchemas == CountOf(parsed, "valid")
        invalidSchemas == CountOf(parsed, "invalid")
        first ==
            IF validSchemas = 0 /\ invalidSchemas = 0 THEN
                Outcome(<<Issue("warning", "structure", "medium", TRUE, "Structured Data", "warning", "No structured data found", 0)>>,
                        <<CheckRecord("Structured Data", "warning", "No structured data found", 0, by)>>)
            ELSE IF invalidSchemas > 0 THEN
                Outcome(<<Issue("error", "structure", "high", TRUE, "Structured Data", "failed", "invalid structured data scripts", invalidSchemas)>>,
                        <<CheckRecord("Structured Data", "failed", "invalid schemas", invalidSchemas, by)>>)
            ELSE Outcome(<<>>, <<>>)
        second ==
            IF validSchemas > 0 THEN
                Outcome(<<Issue("success", "structure", "low", FALSE, "Structured Data", "passed", "valid structured data schemas found", validSchemas)>>,
                        <<CheckRecord("Structured Data", "passed", "valid schemas found", validSchemas, by)>>)
            ELSE Outcome(<<>>, <<>>)
    IN  IF \E i \in DOMAIN parsed : parsed[i] = "raise"
           THEN [issues |-> <<>>, checks |-> <<>>, raised |-> TRUE]
           ELSE Outcome(first.issues \o second.issues, first.checks \o second.checks)

analyzeOpenGraph(doc, by) ==
    LET ogCount == Cardinality(doc.og \cap OgAll) IN
    IF ogCount = 0 THEN
        Outcome(<<Issue("warning", "meta", "medium", TRUE, "Open Graph Tags", "warning", "No Open Graph tags found", 0)>>,
                <<CheckRecord("Open Graph Tags", "warning", "No Open Graph tags found", 0, by)>>)
    ELSE IF ogCount < 4 THEN
        Outcome(<<Issue("warning", "meta", "medium", TRUE, "Open Graph Tags", "warning", "Incomplete Open Graph tags", ogCount)>>,
                <<CheckRecord("Open Graph Tags", "warning", "Open Graph tags found", ogCount, by)>>)
    ELSE
        Outcome(<<Issue("success", "meta", "low", FALSE, "Open Graph Tags", "passed", "Complete Open Graph tags found", 0)>>,
                <<CheckRecord("Open Graph Tags", "passed", "Complete Open Graph tags found", 0, by)>>)

\* switch (issue.type) of TechnicalSEOAnalyzer.analyzePage
TechnicalDeduct ==
    [tp \in Types \X Priorities |->
        CASE tp[1] = "error"   -> (IF tp[2] = "high" THEN 20 ELSE IF tp[2] = "medium" THEN 12 ELSE 6)
          [] tp[1] = "warning" -> (IF tp[2] = "high" THEN 10 ELSE IF tp[2] = "medium" THEN 6 ELSE 3)
          [] tp[1] = "info"    -> 1
          [] OTHER             -> 0]

\* let score = 100; issues.forEach(...); score = Math.max(0, Math.min(100, score))
calculateScore(issues, deduct) == Clamp(100 - SumDeductions(issues, deduct))

\* What an analyze* call leaves behind: the Report it returns and the records it
\* pushed on this.allChecks on the way.  path is the return statement taken
\* ("success": the one of the try block, "failure": the one of the catch block,
\* "empty": the early return of the blog module); fetched tells whether the
\* fetchWithProxy of the seed URL returned.
Result(path, fetched, url, score, issues, actionableItems, pushes, extra) ==
    [path |-> path, fetched |-> fetched, url |-> url, score |-> score, issues |-> issues,
     actionableItems |-> actionableItems, pushes |-> pushes, extra |-> extra]

\* TechnicalSEOAnalyzer.analyzePage from the point where fetchWithProxy settles.
\* net.ok: the fetch returned
technicalAnalyzePage(url0, net, by) ==
    LET url == NormalizeUrl(url0)
        doc == net.html
        outs == <<analyzeIndexability(doc, url, net.status, by),
                  analyzeCanonicalization(doc, url, by),
                  analyzeMetaTags(doc, by),
                  analyzeHeaders(doc, by),
                  analyzeStructuredData(doc, by),
                  analyzeOpenGraph(doc, by)>>
        ran == IF net.ok THEN Ran(outs) ELSE <<>>
        threw == ~net.ok \/ Raised(outs)
        issues == IssuesOf(ran)
        failed == Append(issues, Issue("error", "indexability", "high", TRUE, "Page Analysis", "failed", "Technical analysis failed", 0))
    IN  IF ~threw
           THEN Result("success", TRUE, url, calculateScore(issues, TechnicalDeduct), issues,
                       FilterActionable(issues), ChecksOf(ran), [metrics |-> [responseCode |-> net.status]])
           ELSE Result("failure", net.ok, url, 0, failed, FilterActionable(failed),
                       Append(ChecksOf(ran), CheckRecord("Page Analysis", "failed", "Analysis failed", 0, by)),
                       [metrics |-> [responseCode |-> 0]])

(***************************************************************************)
(* PageSpeedAnalyzer                                                       *)
(***************************************************************************)
PsIssue(type, category, priority, actionable, checkName, status, text, n) ==
    Issue(type, category, priority, actionable, checkName, status, text, n)

analyzeLoadingPerformance(loadTime, by) ==
    IF loadTime > 3000 THEN
        Outcome(<<PsIssue("error", "loading", "high", TRUE, "Page Load Time", "failed", "Slow page load time", loadTime)>>,
                <<CheckRecord("Page Load Time", "failed", "slow", loadTime, by)>>)
    ELSE IF loadTime > 1500 THEN
        Outcome(<<PsIssue("warning", "loading", "medium", TRUE, "Page Load Time", "warning", "Moderate page load time", loadTime)>>,
                <<CheckRecord("Page Load Time", "warning", "moderate", loadTime, by)>>)
    ELSE
        Outcome(<<PsIssue("success", "loading", "low", FALSE, "Page Load Time", "passed", "Good page load time", loadTime)>>,
                <<CheckRecord("Page Load Time", "passed", "good", loadTime, by)>>)

analyzeRenderBlocking(doc, by) ==
    LET css ==
            IF doc.stylesheets > 5 THEN
                Outcome(<<PsIssue("warning", "rendering", "medium", TRUE, "CSS Files", "warning", "Multiple CSS files may block rendering", doc.stylesheets)>>,
                        <<CheckRecord("CSS Files", "warning", "CSS files", doc.stylesheets, by)>>)
            ELSE Outcome(<<>>, <<CheckRecord("CSS Files", "passed", "CSS files (reasonable)", doc.stylesheets, by)>>)
        js ==
            IF doc.syncScripts > 3 THEN
                Outcome(<<PsIssue("warning", "rendering", "medium", TRUE, "Render-blocking JS", "warning", "render-blocking JavaScript files", doc.syncScripts)>>,
                        <<CheckRecord("Render-blocking JS", "warning", "blocking scripts", doc.syncScripts, by)>>)
            ELSE Outcome(<<>>, <<CheckRecord("Render-blocking JS", "passed", "blocking scripts (acceptable)", doc.syncScripts, by)>>)
    IN  Outcome(css.issues \o js.issues, css.checks \o js.checks)

analyzeImages(doc, by) ==
    LET images == doc.images
        lazyImages == Cardinality({i \in DOMAIN images : images[i].lazy})
        imagesWithoutDimensions == Cardinality({i \in DOMAIN images : ~images[i].dims})
        lazy ==
            IF Len(images) > 3 /\ lazyImages = 0 THEN
                Outcome(<<PsIssue("warning", "optimization", "medium", TRUE, "Image Lazy Loading", "warning", "Images not using lazy loading", 0)>>,
                        <<CheckRecord("Image Lazy Loading", "warning", "No lazy loading detected", 0, by)>>)
            ELSE IF lazyImages > 0 THEN
                Outcome(<<>>, <<CheckRecord("Image Lazy Loading", "passed", "images use lazy loading", lazyImages, by)>>)
            ELSE Outcome(<<>>, <<>>)
        dims ==
            IF imagesWithoutDimensions > 0 THEN
                Outcome(<<PsIssue("warning", "rendering", "medium", TRUE, "Image Dimensions", "warning", "images without explicit dimensions", imagesWithoutDimensions)>>,
                        <<CheckRecord("Image Dimensions", "warning", "images without dimensions", imagesWithoutDimensions, by)>>)
            ELSE IF Len(images) > 0 THEN
                Outcome(<<>>, <<CheckRecord("Image Dimensions", "passed", "All images have dimensions", 0, by)>>)
            ELSE Outcome(<<>>, <<>>)
    IN  Outcome(lazy.issues \o dims.issues, lazy.checks \o dims.checks)

\* contentEncoding && (includes('gzip') || includes('br') || includes('deflate'));
\* headers.encoding is the content-encoding header, "" when there is none
compressionEnabled(headers) == headers.encoding \in {"gzip", "br", "deflate"}

analyzeCompression(headers, by) ==
    IF ~compressionEnabled(headers) THEN
        Outcome(<<PsIssue("warning", "optimization", "medium", TRUE, "Text Compression", "warning", "Text compression not enabled", 0)>>,
                <<CheckRecord("Text Compression", "warning", "No compression detected", 0, by)>>)
    ELSE Outcome(<<>>, <<CheckRecord("Text Compression", "passed", "Compression enabled", 0, by)>>)

\* cacheControl || expires || etag || lastModified; headers.cache is the set of
\* these four headers that the response carries
hasCacheHeaders(headers) ==
    headers.cache \cap {"cache-control", "expires", "etag", "last-modified"} # {}

analyzeCaching(headers, by) ==
    IF ~hasCacheHeaders(headers) THEN
        Outcome(<<PsIssue("warning", "optimization", "medium", TRUE, "Browser Caching", "warning", "Browser caching not configured", 0)>>,
                <<CheckRecord("Browser Caching", "warning", "No cache headers found", 0, by)>>)
    ELSE Outcome(<<>>, <<CheckRecord("Browser Caching", "passed", "Cache headers present", 0, by)>>)

\* switch (issue.type) of PageSpeedAnalyzer.analyzePage
PageSpeedDeduct ==
    [tp \in Types \X Priorities |->
        CASE tp[1] = "error"   -> (IF tp[2] = "high" THEN 25 ELSE IF tp[2] = "medium" THEN 15 ELSE 8)
          [] tp[1] = "warning" -> (IF tp[2] = "high" THEN 12 ELSE IF tp[2] = "medium" THEN 8 ELSE 4)
          [] tp[1] = "info"    -> 2
          [] OTHER             -> 0]

\* const fonts = doc.querySelectorAll('link[rel="preload"][as="font"], @font-face')
FontsSelector == "link[rel=preload][as=font], @font-face"

\* Document.querySelectorAll raises a SyntaxError DOMException when its argument
\* does not parse as a selector list; one bad member fails the whole list, and
\* the at-keyword @font-face is no selector.
querySelectorAllThrows(selector) == selector \in {FontsSelector}

\* metrics.compressionEnabled / metrics.cacheHeaders of the try block
pageSpeedMetrics(net) ==
    [loadTime |-> net.loadTime,
     compressionEnabled |-> net.headers.encoding # "",
     cacheHeaders |-> net.headers.cache \cap {"cache-control", "expires"} # {}]

\* PageSpeedAnalyzer.analyzePage from the point where fetchWithProxy settles.
\* The metrics are computed after the evaluators, inside the same try block.
pageSpeedAnalyzePage(url0, net, by) ==
    LET url == NormalizeUrl(url0)
        doc == net.html
        outs == <<analyzeLoadingPerformance(net.loadTime, by),
                  analyzeRenderBlocking(doc, by),
                  analyzeImages(doc, by),
                  analyzeCompression(net.headers, by),
                  analyzeCaching(net.headers, by)>>
        ran == IF net.ok THEN Ran(outs) ELSE <<>>
        threw == ~net.ok \/ Raised(outs) \/ querySelectorAllThrows(FontsSelector)
        issues == IssuesOf(ran)
        failed == Append(issues, PsIssue("error", "loading", "high", TRUE, "Page Analysis", "failed", "Performance analysis failed", 0))
    IN  IF ~threw
           THEN Result("success", TRUE, url, calculateScore(issues, PageSpeedDeduct), issues,
                       FilterActionable(issues), ChecksOf(ran), [metrics |-> pageSpeedMetrics(net)])
           ELSE Result("failure", net.ok, url, 0, failed, FilterActionable(failed),
                       Append(ChecksOf(ran), CheckRecord("Page Analysis", "failed", "Analysis failed", 0, by)),
                       [metrics |-> [loadTime |-> 0, compressionEnabled |-> FALSE, cacheHeaders |-> FALSE]])

(***************************************************************************)
(* QuickWinsAnalyzer (pageSpeedAnalyzer.ts)                                *)
(***************************************************************************)
\* A QuickWin literal; timeToImplement is the leading number of the string and
\* the unit word it contains ('5 minutes', '1-2 hours'); recommendation,
\* expectedImpact and element are strings by their pieces (element is <<>> when
\* the literal has none)
QuickWin(category, text, n, impact, effort, priority, time, unit, checkName, recommendation, expectedImpact, element) ==
    [category |-> category, issue |-> [text |-> text, n |-> n], impact |-> impact,
     effort |-> effort, priority |-> priority,
     timeToImplement |-> [n |-> time, unit |-> unit], checkName |-> checkName,
     recommendation |-> recommendation, expectedImpact |-> expectedImpact, element |-> element]

\* Quick Win 1: Title Tag Optimization
qwTitle(doc, by) ==
    IF doc.title = <<>> \/ doc.title[1].trimLen = 0 THEN
        Outcome(<<QuickWin("meta", "Missing title tag", 0, "high", "easy", 10, 5, "minutes", "Title Tag",
                      <<"Add a descriptive title tag that includes your primary keyword and is 50-60 characters long">>,
                      <<"Immediate improvement in search result appearance and click-through rates">>, <<>>)>>,
                <<CheckRecord("Title Tag", "critical", "Missing title tag", 0, by)>>)
    ELSE LET titleLength == doc.title[1].len IN
        IF titleLength < 30 \/ titleLength > 60 THEN
            Outcome(<<QuickWin("meta", "Title length not optimal", titleLength, "medium", "easy", 8, 5, "minutes", "Title Tag",
                      (IF titleLength < 30 THEN <<"Expand title to include more descriptive keywords (50-60 chars)">>
                       ELSE <<"Shorten title to prevent truncation in search results (under 60 chars)">>),
                      <<"Better search result display and improved CTR">>, doc.title[1].chars)>>,
                    <<CheckRecord("Title Tag", "needs-improvement", "Length", titleLength, by)>>)
        ELSE Outcome(<<>>, <<CheckRecord("Title Tag", "passed", "Optimal length", titleLength, by)>>)

\* Quick Win 2: Meta Description
qwMetaDescription(doc, by) ==
    IF doc.desc = <<>> \/ doc.desc[1].trimLen = 0 THEN
        Outcome(<<QuickWin("meta", "Missing meta description", 0, "high", "easy", 9, 10, "minutes", "Meta Description",
                      <<"Add a compelling meta description that summarizes the page content and includes a call-to-action (150-160 characters)">>,
                      <<"Control how your page appears in search results and improve click-through rates">>, <<>>)>>,
                <<CheckRecord("Meta Description", "critical", "Missing meta description", 0, by)>>)
    ELSE LET descLength == doc.desc[1].len IN
        IF descLength < 120 \/ descLength > 160 THEN
            Outcome(<<QuickWin("meta", "Meta description length not optimal", descLength, "medium", "easy", 7, 10, "minutes", "Meta Description",
                      (IF descLength < 120 THEN <<"Expand description to better summarize page content (150-160 chars)">>
                       ELSE <<"Shorten description to prevent truncation in search results (under 160 chars)">>),
                      <<"Better search result snippet and improved user engagement">>, doc.desc[1].chars)>>,
                    <<CheckRecord("Meta Description", "needs-improvement", "Length", descLength, by)>>)
        ELSE Outcome(<<>>, <<CheckRecord("Meta Description", "passed", "Optimal length", descLength, by)>>)

\* Quick Win 3: HTTPS Implementation
qwHttps(url, by) ==
    IF ~StartsWith(url, "https://") THEN
        Outcome(<<QuickWin("technical", "Not using HTTPS", 0, "high", "medium", 10, 1, "hours", "HTTPS Security",
                      <<"Implement SSL certificate and set up automatic redirects from HTTP to HTTPS">>,
                      <<"Improved security", Comma, " user trust", Comma, " and search engine rankings">>, <<>>)>>,
                <<CheckRecord("HTTPS Security", "critical", "HTTP only (not secure)", 0, by)>>)
    ELSE Outcome(<<>>, <<CheckRecord("HTTPS Security", "passed", "HTTPS enabled", 0, by)>>)

\* Quick Win 4: Mobile Viewport
qwViewport(doc, by) ==
    IF ~doc.viewport THEN
        Outcome(<<QuickWin("technical", "Missing viewport meta tag", 0, "high", "easy", 9, 2, "minutes", "Mobile Viewport",
                      <<"Add <meta name=", Quote, "viewport", Quote, " content=", Quote, "width=device-width", Comma, " initial-scale=1.0", Quote, "> to the <head> section">>,
                      <<"Proper mobile display and improved mobile search rankings">>, <<>>)>>,
                <<CheckRecord("Mobile Viewport", "critical", "Missing viewport meta tag", 0, by)>>)
    ELSE Outcome(<<>>, <<CheckRecord("Mobile Viewport", "passed", "Viewport meta tag present", 0, by)>>)

\* Quick Win 5: H1 Tag Optimization
qwH1(doc, by) ==
    LET h1Count == CountOf(doc.headings, 1) IN
    IF h1Count = 0 THEN
        Outcome(<<QuickWin("content", "Missing H1 tag", 0, "high", "easy", 8, 5, "minutes", "H1 Heading",
                      <<"Add exactly one H1 tag that clearly describes the main topic of the page">>,
                      <<"Clear page topic signal for search engines and better content structure">>, <<>>)>>,
                <<CheckRecord("H1 Heading", "critical", "No H1 tag found", 0, by)>>)
    ELSE IF h1Count > 1 THEN
        Outcome(<<QuickWin("content", "Multiple H1 tags", h1Count, "medium", "easy", 6, 10, "minutes", "H1 Heading",
                      <<"Keep only one H1 tag and convert others to H2 or H3 tags as appropriate">>,
                      <<"Clearer content hierarchy and improved SEO focus">>, <<"Heading", Comma, " Heading">>)>>,
                <<CheckRecord("H1 Heading", "needs-improvement", "H1 tags found", h1Count, by)>>)
    ELSE Outcome(<<>>, <<CheckRecord("H1 Heading", "passed", "Single H1 tag found", 0, by)>>)

\* Quick Win 6: Image Alt Text; timeToImplement is Math.ceil(n * 2) minutes
qwImageAlt(doc, by) ==
    LET images == doc.images
        imagesWithoutAlt == Cardinality({i \in DOMAIN images : ~images[i].alt})
    IN  IF imagesWithoutAlt > 0 THEN
            Outcome(<<QuickWin("content", "images missing alt text", imagesWithoutAlt, "medium", "easy", 7, imagesWithoutAlt * 2, "minutes", "Image Alt Text",
                      <<"Add descriptive alt text to all images for better accessibility and SEO">>,
                      <<"Better accessibility", Comma, " image search visibility", Comma, " and user experience">>, <<>>)>>,
                    <<CheckRecord("Image Alt Text", "needs-improvement", "images missing alt text", imagesWithoutAlt, by)>>)
        ELSE IF Len(images) > 0 THEN
            Outcome(<<>>, <<CheckRecord("Image Alt Text", "passed", "All images have alt text", Len(images), by)>>)
        ELSE Outcome(<<>>, <<CheckRecord("Image Alt Text", "passed", "No images found", 0, by)>>)

\* Quick Win 7: Page Loading Speed
qwPageSpeed(loadTime, by) ==
    IF loadTime > 3000 THEN
        Outcome(<<QuickWin("performance", "Slow page load time", loadTime, "high", "hard", 9, 4, "hours", "Page Speed",
                      <<"Optimize images", Comma, " minify CSS/JS files", Comma, " enable gzip compression", Comma, " and consider using a CDN">>,
                      <<"Better user experience", Comma, " lower bounce rate", Comma, " and improved search rankings">>, <<>>)>>,
                <<CheckRecord("Page Speed", "critical", "slow", loadTime, by)>>)
    ELSE IF loadTime > 1500 THEN
        Outcome(<<QuickWin("performance", "Moderate page load time", loadTime, "medium", "medium", 5, 2, "hours", "Page Speed",
                      <<"Optimize images and consider lazy loading to improve load times">>,
                      <<"Improved user experience and better Core Web Vitals scores">>, <<>>)>>,
                <<CheckRecord("Page Speed", "needs-improvement", "moderate", loadTime, by)>>)
    ELSE Outcome(<<>>, <<CheckRecord("Page Speed", "passed", "good", loadTime, by)>>)

\* Quick Win 8: Canonical Tag
qwCanonical(doc, by) ==
    IF doc.canonical = "absent" THEN
        Outcome(<<QuickWin("technical", "Missing canonical tag", 0, "medium", "easy", 6, 5, "minutes", "Canonical URL",
                      <<"Add a canonical tag to specify the preferred URL version and prevent duplicate content issues">>,
                      <<"Prevention of duplicate content penalties and clearer URL signals">>, <<>>)>>,
                <<CheckRecord("Canonical URL", "needs-improvement", "Missing canonical tag", 0, by)>>)
    ELSE Outcome(<<>>, <<CheckRecord("Canonical URL", "passed", "Canonical tag present", 0, by)>>)

\* Quick Win 9: Language Declaration
qwLanguage(doc, by) ==
    IF ~doc.lang THEN
        Outcome(<<QuickWin("technical", "Missing language declaration", 0, "medium", "easy", 5, 2, "minutes", "Language Declaration",
                      <<"Add lang attribute to HTML element (e.g.", Comma, " <html lang=", Quote, "en", Quote, ">) to help search engines understand content language">>,
                      <<"Better international SEO and accessibility">>, <<>>)>>,
                <<CheckRecord("Language Declaration", "needs-improvement", "Missing lang attribute", 0, by)>>)
    ELSE Outcome(<<>>, <<CheckRecord("Language Declaration", "passed", "Language", 0, by)>>)

\* Quick Win 10: Open Graph Tags
qwOpenGraph(doc, by) ==
    IF ~({"og:title", "og:description", "og:image"} \subseteq doc.og) THEN
        Outcome(<<QuickWin("meta", "Incomplete Open Graph tags", 0, "medium", "easy", 4, 15, "minutes", "Social Media Tags",
                      <<"Add og:title", Comma, " og:description", Comma, " and og:image meta tags for better social media sharing appearance">>,
                      <<"Better appearance when shared on social media platforms">>, <<>>)>>,
                <<CheckRecord("Social Media Tags", "needs-improvement", "Incomplete Open Graph tags", 0, by)>>)
    ELSE Outcome(<<>>, <<CheckRecord("Social Media Tags", "passed", "Complete Open Graph tags found", 0, by)>>)

RECURSIVE InsertByPriority(_, _)
\* w goes behind every element whose priority is not lower than its own
InsertByPriority(s, w) ==
    IF s = <<>> THEN <<w>>
    ELSE IF Head(s).priority >= w.priority THEN <<Head(s)>> \o InsertByPriority(Tail(s), w)
    ELSE <<w>> \o s

RECURSIVE InsertBeforeEqual(_, _)
\* w goes behind the elements of higher priority only
InsertBeforeEqual(s, w) ==
    IF s = <<>> THEN <<w>>
    ELSE IF Head(s).priority > w.priority THEN <<Head(s)>> \o InsertBeforeEqual(Tail(s), w)
    ELSE <<w>> \o s

RECURSIVE SortByPriorityUnstable(_)
\* a sort by priority that does not keep the order of equal priorities
SortByPriorityUnstable(s) ==
    IF s = <<>> THEN <<>>
    ELSE InsertBeforeEqual(SortByPriorityUnstable(SubSeq(s, 1, Len(s) - 1)), s[Len(s)])

RECURSIVE SortByPriority(_)
\* quickWins.sort((a, b) => b.priority - a.priority): Array.prototype.sort is
\* stable, equal priorities keep their order
SortByPriority(s) ==
    IF s = <<>> THEN <<>>
    ELSE InsertByPriority(SortByPriority(SubSeq(s, 1, Len(s) - 1)), s[Len(s)])

\* the medium effort is in no list
implementationPlanEasyHard(quickWins) ==
    [immediate |-> SelectSeq(quickWins, LAMBDA w : w.effort = "easy" /\ w.timeToImplement.unit = "minutes"),
     shortTerm |-> SelectSeq(quickWins, LAMBDA w : w.effort = "easy" /\ w.timeToImplement.unit = "hours"),
     longTerm  |-> SelectSeq(quickWins, LAMBDA w : w.effort = "hard")]

\* const implementationPlan = { immediate, shortTerm, longTerm }
implementationPlan(quickWins) ==
    [immediate |-> SelectSeq(quickWins, LAMBDA w : w.effort = "easy" /\ w.timeToImplement.unit = "minutes"),
     shortTerm |-> SelectSeq(quickWins, LAMBDA w : (w.effort = "easy" /\ w.timeToImplement.unit = "hours") \/ w.effort = "medium"),
     longTerm  |-> SelectSeq(quickWins, LAMBDA w : w.effort = "hard")]

RECURSIVE SumImpact(_)
\* quickWins.forEach(win => score -= high ? 15 : medium ? 8 : 3)
SumImpact(quickWins) ==
    IF quickWins = <<>> THEN 0
    ELSE (IF Head(quickWins).impact = "high" THEN 15
          ELSE IF Head(quickWins).impact = "medium" THEN 8 ELSE 3) + SumImpact(Tail(quickWins))

\* QuickWinsAnalyzer.analyzeQuickWins from the point where fetchWithProxy settles
analyzeQuickWins(url0, net, by) ==
    LET url == NormalizeUrl(url0)
        doc == net.html
        outs == <<qwTitle(doc, by), qwMetaDescription(doc, by), qwHttps(url, by), qwViewport(doc, by),
                  qwH1(doc, by), qwImageAlt(doc, by), qwPageSpeed(net.loadTime, by), qwCanonical(doc, by),
                  qwLanguage(doc, by), qwOpenGraph(doc, by)>>
        ran == IF net.ok THEN Ran(outs) ELSE <<>>
        threw == ~net.ok \/ Raised(outs)
        quickWins == SortByPriority(IssuesOf(ran))
        failed == <<QuickWin("technical", "Analysis failed", 0, "high", "easy", 10, 5, "minutes", "Page Analysis",
                      <<"Check if URL is accessible and try again">>,
                      <<"Successful SEO analysis">>, <<>>)>>
    IN  IF ~threw
           THEN Result("success", TRUE, url, Clamp(100 - SumImpact(quickWins)), quickWins, <<>>, ChecksOf(ran),
                       [implementationPlan |-> implementationPlan(quickWins)])
           ELSE Result("failure", net.ok, url, 0, failed, <<>>,
                       Append(ChecksOf(ran), CheckRecord("Page Analysis", "critical", "Analysis failed", 0, by)),
                       [implementationPlan |-> [immediate |-> <<>>, shortTerm |-> <<>>, longTerm |-> <<>>]])

\* const headers = [...] of generateCSVReport
headers ==
    <<"Priority", "Category", "Issue", "Impact", "Effort", "Time to Implement", "Recommendation",
      "Expected Impact", "Element", "Status", "Notes">>

\* result.quickWins.map(win => [win.priority.toString(), win.category, ...]):
\* the cells of the row of a quick win, each a string by its pieces
rowOf(win) ==
    << <<ToString(win.priority)>>,
       <<win.category>>,
       IF win.issue.n = 0 THEN <<win.issue.text>> ELSE <<win.issue.text, ToString(win.issue.n)>>,
       <<win.impact>>,
       <<win.effort>>,
       <<ToString(win.timeToImplement.n), win.timeToImplement.unit>>,
       win.recommendation,
       win.expectedImpact,
       win.element,
       <<>>,
       <<>> >>

\* the cell is written as it is
keepQuotes(cell) == cell

RECURSIVE doubleQuotes(_)
\* cell.replace(/"/g, '""')
doubleQuotes(cell) ==
    IF cell = <<>> THEN <<>>
    ELSE (IF Head(cell) = Quote THEN <<Quote, Quote>> ELSE <<Head(cell)>>) \o doubleQuotes(Tail(cell))

\* `"${cell.replace(/"/g, '""')}"`
quoteCell(cell) == <<Quote>> \o doubleQuotes(cell) \o <<Quote>>

RECURSIVE join(_, _)
\* Array.prototype.join(sep) over strings by their pieces
join(parts, sep) ==
    IF parts = <<>> THEN <<>>
    ELSE IF Len(parts) = 1 THEN parts[1]
    ELSE parts[1] \o <<sep>> \o join(Tail(parts), sep)

\* QuickWinsAnalyzer.generateCSVReport: result is a Report of the quick-wins
\* module (quickWins are its issues); the date and the time estimate of the
\* header block are one piece each
generateCSVReport(result) ==
    LET rows == [k \in DOMAIN result.issues |-> rowOf(result.issues[k])]
    IN  join(<< <<"SEO Quick Wins Report - ">> \o result.url,
                <<"Generated: ", "date">>,
                <<"Overall Score: ", ToString(result.score), "/100">>,
                <<"Total Implementation Time: ", "estimate">>,
                <<>>,
                join([k \in DOMAIN headers |-> <<headers[k]>>], Comma) >>
             \o [k \in DOMAIN rows |-> join([c \in DOMAIN rows[k] |-> quoteCell(rows[k][c])], Comma)],
             Newline)

(***************************************************************************)
(* BlogContentAnalyzer                                                     *)
(***************************************************************************)
\* const blogPatterns = [/\/blog\//i, /\/articles?\//i, ...]: the directories
\* of a path that one of the patterns matches
BlogDirs == {"blog", "article", "articles", "post", "posts", "news", "insight", "insights",
             "resource", "resources", "learn", "guide", "guides"}

\* href.startsWith('http') ? href : new URL(href, baseUrl).href: an absolute
\* href is taken as it is written, a relative one is resolved and serialised
FullUrl(link, baseUrl) ==
    IF link.abs THEN [scheme |-> link.scheme, host |-> link.host, dir |-> link.dir, slug |-> link.slug]
    ELSE Href([scheme |-> baseUrl[1], host |-> baseUrl[2], dir |-> link.dir, slug |-> link.slug])

\* blogPatterns.some(pattern => pattern.test(fullUrl))
matchesBlogPattern(fullUrl) == ToLowerCase(fullUrl.dir) \in BlogDirs

\* the hostnames are not compared
IsBlogCandidateAnyHost(link, baseUrl) ==
    matchesBlogPattern(FullUrl(link, baseUrl)) \/ link.text

\* matchesBlogPattern || textIndicatesBlog, then linkDomain === baseDomain
IsBlogCandidate(link, baseUrl) ==
    /\ matchesBlogPattern(FullUrl(link, baseUrl)) \/ link.text
    /\ Hostname(FullUrl(link, baseUrl)) = ParsedHost(baseUrl[2])

RECURSIVE Distinct(_)
\* the insertion order of a Set: the first occurrence of every element
Distinct(s) ==
    IF s = <<>> THEN <<>>
    ELSE LET init == Distinct(SubSeq(s, 1, Len(s) - 1))
         IN  IF s[Len(s)] \in Range(init) THEN init ELSE Append(init, s[Len(s)])

RECURSIVE MapFullUrl(_, _)
MapFullUrl(links, baseUrl) ==
    IF links = <<>> THEN <<>>
    ELSE <<FullUrl(Head(links), baseUrl)>> \o MapFullUrl(Tail(links), baseUrl)

\* the whole set is returned
findBlogUrlsUncapped(doc, baseUrl) ==
    Distinct(MapFullUrl(SelectSeq(doc.links, LAMBDA l : IsBlogCandidate(l, baseUrl)), baseUrl))

\* Array.from(blogUrls).slice(0, 20)
findBlogUrls(doc, baseUrl) ==
    LET kept == SelectSeq(doc.links, LAMBDA l : IsBlogCandidate(l, baseUrl))
        urls == Distinct(MapFullUrl(kept, baseUrl))
    IN  SubSeq(urls, 1, Min(Len(urls), 20))

\* Math.ceil(wordCount / 200)
CeilDiv(a, b) == (a + b - 1) \div b

\* Math.round(a / b) for a >= 0, b > 0
RoundDiv(a, b) == (2 * a + b) \div (2 * b)

\* analyzeBlogPost from the point where its fetchWithProxy settles
analyzeBlogPost(url, net) ==
    IF net.ok THEN
        LET doc == net.html
            hasMeta == doc.desc # <<>> /\ doc.desc[1].trimLen > 0
        IN  [url |-> url,
             title |-> IF doc.title # <<>> /\ doc.title[1].trimLen > 0 THEN "Title" ELSE "Untitled",
             wordCount |-> doc.words,
             readingTime |-> CeilDiv(doc.words, 200),
             hasMetaDescription |-> hasMeta,
             metaDescriptionLength |-> IF doc.desc # <<>> THEN doc.desc[1].len ELSE 0,
             h1Count |-> CountOf(doc.headings, 1),
             h2Count |-> CountOf(doc.headings, 2),
             imageCount |-> Len(doc.images),
             imagesWithoutAlt |-> Cardinality({i \in DOMAIN doc.images : ~doc.images[i].alt}),
             internalLinks |-> Cardinality({i \in DOMAIN doc.links :
                                  ~doc.links[i].abs \/ ParsedHost(doc.links[i].host) = Hostname(url)}),
             externalLinks |-> Cardinality({i \in DOMAIN doc.links :
                                  doc.links[i].abs /\ ParsedHost(doc.links[i].host) # Hostname(url)}),
             contentQuality |-> IF doc.words < 300 THEN "thin"
                                ELSE IF doc.words < 1000 THEN "adequate" ELSE "comprehensive",
             failed |-> FALSE]
    ELSE
        [url |-> url, title |-> "Failed to analyze", wordCount |-> 0, readingTime |-> 0,
         hasMetaDescription |-> FALSE, metaDescriptionLength |-> 0, h1Count |-> 0, h2Count |-> 0,
         imageCount |-> 0, imagesWithoutAlt |-> 0, internalLinks |-> 0, externalLinks |-> 0,
         contentQuality |-> "thin", failed |-> TRUE]

\* A BlogContentIssue literal
BlogIssue(type, category, priority, text, n, affected) ==
    [type |-> type, category |-> category, priority |-> priority,
     message |-> [text |-> text, n |-> n], affectedPosts |-> affected]

RECURSIVE Titles(_)
Titles(posts) == IF posts = <<>> THEN <<>> ELSE <<Head(posts).title>> \o Titles(Tail(posts))

RECURSIVE FetchedUrls(_)
\* the url of the one fetchWithProxy call each analyzeBlogPost makes
FetchedUrls(posts) == IF posts = <<>> THEN <<>> ELSE <<Head(posts).url>> \o FetchedUrls(Tail(posts))

RECURSIVE SumField(_, _)
\* posts.reduce((sum, p) => sum + p[field], 0)
SumField(posts, field) ==
    IF posts = <<>> THEN 0 ELSE Head(posts)[field] + SumField(Tail(posts), field)

RECURSIVE ScanPostsAborting(_, _)
\* the loop ends at the first post whose retrieval fails
ScanPostsAborting(urls, served) ==
    IF urls = <<>> \/ ~served[Head(urls).slug].ok THEN <<>>
    ELSE <<analyzeBlogPost(Head(urls), served[Head(urls).slug])>> \o ScanPostsAborting(Tail(urls), served)

\* for (let i = 0; i < maxPosts; i++) posts.push(await this.analyzeBlogPost(blogUrls[i]))
\* served[u]: how the fetchWithProxy of post u settles
RECURSIVE ScanPosts(_, _)
ScanPosts(urls, served) ==
    IF urls = <<>> THEN <<>>
    ELSE <<analyzeBlogPost(Head(urls), served[Head(urls).slug])>> \o ScanPosts(Tail(urls), served)

blogSummary(thin, missingMeta, poor, posts) ==
    [thinContent |-> thin, duplicateContent |-> 0, missingMetaDescriptions |-> missingMeta,
     poorStructure |-> poor,
     averageWordCount |-> IF Len(posts) > 0 THEN RoundDiv(SumField(posts, "wordCount"), Len(posts)) ELSE 0,
     averageReadingTime |-> IF Len(posts) > 0 THEN RoundDiv(SumField(posts, "readingTime"), Len(posts)) ELSE 0]

\* BlogContentAnalyzer.analyzeContent from the point where the fetchWithProxy of
\* the seed settles; the module keeps no allChecks.  blogUrls and fetches in
\* extra are history: the local blogUrls of the call, and the urls of the
\* fetchWithProxy calls made after the one of the seed.
analyzeContent(url0, net, served) ==
    LET url == NormalizeUrl(url0)
        blogUrls == findBlogUrls(net.html, url)
        maxPosts == Min(Len(blogUrls), 15)
        posts == ScanPosts(SubSeq(blogUrls, 1, maxPosts), served)
        thinContentPosts == SelectSeq(posts, LAMBDA q : q.contentQuality = "thin")
        missingMetaPosts == SelectSeq(posts, LAMBDA q : ~q.hasMetaDescription)
        poorStructurePosts == SelectSeq(posts, LAMBDA q : q.h1Count # 1 \/ q.h2Count = 0)
        imagesWithoutAltPosts == SelectSeq(posts, LAMBDA q : q.imagesWithoutAlt > 0)
        issues ==
            (IF Len(thinContentPosts) > 0
                THEN <<BlogIssue("error", "content-quality", "high", "posts with thin content", Len(thinContentPosts), Titles(thinContentPosts))>>
                ELSE <<>>)
            \o (IF Len(missingMetaPosts) > 0
                THEN <<BlogIssue("error", "seo-optimization", "high", "posts missing meta descriptions", Len(missingMetaPosts), Titles(missingMetaPosts))>>
                ELSE <<>>)
            \o (IF Len(poorStructurePosts) > 0
                THEN <<BlogIssue("warning", "structure", "medium", "posts with poor header structure", Len(poorStructurePosts), Titles(poorStructurePosts))>>
                ELSE <<>>)
            \o (IF Len(imagesWithoutAltPosts) > 0
                THEN <<BlogIssue("warning", "seo-optimization", "medium", "images missing alt text", SumField(imagesWithoutAltPosts, "imagesWithoutAlt"), Titles(imagesWithoutAltPosts))>>
                ELSE <<>>)
        score == Clamp(100 - Len(thinContentPosts) * 10 - Len(missingMetaPosts) * 8
                           - Len(poorStructurePosts) * 5 - Min(Len(imagesWithoutAltPosts) * 3, 20))
        none == [totalPosts |-> 0, scannedPosts |-> 0, posts |-> <<>>, summary |-> blogSummary(0, 0, 0, <<>>),
                 blogUrls |-> IF net.ok THEN blogUrls ELSE <<>>, fetches |-> <<>>]
    IN  IF ~net.ok THEN
            Result("failure", FALSE, url, 0,
                   <<BlogIssue("error", "performance", "high", "Failed to analyze blog content", 0, <<>>)>>,
                   <<>>, <<>>, none)
        ELSE IF Len(blogUrls) = 0 THEN
            Result("empty", TRUE, url, 50,
                   <<BlogIssue("warning", "structure", "medium", "No blog posts found", 0, <<>>)>>,
                   <<>>, <<>>, none)
        ELSE
            Result("success", TRUE, url, score, issues, <<>>, <<>>,
                   [totalPosts |-> Len(blogUrls), scannedPosts |-> Len(posts), posts |-> posts,
                    summary |-> blogSummary(Len(thinContentPosts), Len(missingMetaPosts), Len(poorStructurePosts), posts),
                    blogUrls |-> blogUrls, fetches |-> FetchedUrls(posts)])

(***************************************************************************)
(* SiteAnalyzer                                                            *)
(***************************************************************************)
\* What an evaluator of the site module returns: its issues, the records it
\* pushed, and its robotsData / sitemapData / structureData
SiteOutcome(issues, checks, data) == [issues |-> issues, checks |-> checks, raised |-> FALSE, data |-> data]

\* analyzeRobotsTxt from the point where its fetchWithProxy settles.
\* robots: [ok, status, hasUserAgent, sitemaps], the last two read off the lines
\* of the file by lines.forEach
analyzeRobotsTxt(robots, by) ==
    IF ~robots.ok THEN
        SiteOutcome(<<Issue("error", "robots", "high", TRUE, "Robots.txt File", "failed", "Failed to fetch robots.txt", 0)>>,
                    <<CheckRecord("Robots.txt File", "failed", "Failed to fetch robots.txt", 0, by)>>,
                    [exists |-> FALSE, accessible |-> FALSE, valid |-> FALSE, sitemaps |-> <<>>])
    ELSE IF robots.status = 404 THEN
        SiteOutcome(<<Issue("warning", "robots", "medium", TRUE, "Robots.txt File", "warning", "robots.txt file not found", 0)>>,
                    <<CheckRecord("Robots.txt File", "warning", "File not found (404)", 0, by)>>,
                    [exists |-> FALSE, accessible |-> FALSE, valid |-> FALSE, sitemaps |-> <<>>])
    ELSE IF robots.status # 200 THEN
        SiteOutcome(<<Issue("error", "robots", "high", TRUE, "Robots.txt File", "failed", "robots.txt returns HTTP error", robots.status)>>,
                    <<CheckRecord("Robots.txt File", "failed", "HTTP error", robots.status, by)>>,
                    [exists |-> TRUE, accessible |-> FALSE, valid |-> FALSE, sitemaps |-> <<>>])
    ELSE
        LET syntax ==
                IF ~robots.hasUserAgent THEN
                    Outcome(<<Issue("warning", "robots", "medium", TRUE, "Robots.txt Syntax", "warning", "robots.txt missing User-agent directive", 0)>>,
                            <<CheckRecord("Robots.txt Syntax", "warning", "Missing User-agent directive", 0, by)>>)
                ELSE Outcome(<<>>, <<>>)
            sitemap ==
                IF Len(robots.sitemaps) = 0 THEN
                    Outcome(<<Issue("info", "robots", "low", TRUE, "Robots.txt Sitemap", "info", "No sitemap references in robots.txt", 0)>>,
                            <<CheckRecord("Robots.txt Sitemap", "info", "No sitemap references found", 0, by)>>)
                ELSE Outcome(<<>>, <<CheckRecord("Robots.txt Sitemap", "passed", "sitemap(s) referenced", Len(robots.sitemaps), by)>>)
        IN  SiteOutcome(syntax.issues \o sitemap.issues,
                        syntax.checks \o sitemap.checks
                            \o <<CheckRecord("Robots.txt File", "passed", "File exists and accessible", 0, by)>>,
                        [exists |-> TRUE, accessible |-> TRUE, valid |-> robots.hasUserAgent, sitemaps |-> robots.sitemaps])

\* const commonSitemapUrls = [...]
commonSitemapUrls == <<"/sitemap.xml", "/sitemap_index.xml", "/sitemap.txt", "/sitemaps.xml">>

RECURSIVE ProbeSitemapsNoBreak(_, _, _, _)
\* the loop over urlsToCheck without the break after a valid sitemap
ProbeSitemapsNoBreak(urls, served, acc, by) ==
    IF urls = <<>> THEN acc
    ELSE LET r == served[Head(urls)] IN
        IF r.ok /\ r.status = 200 THEN
            IF r.xml THEN
                ProbeSitemapsNoBreak(Tail(urls), served,
                    [acc EXCEPT !.found = TRUE, !.accessible = TRUE, !.valid = TRUE,
                                !.urlCount = acc.urlCount + r.urls,
                                !.checks = Append(acc.checks, CheckRecord("XML Sitemap", "passed", "Valid sitemap found with URLs", acc.urlCount + r.urls, by))],
                    by)
            ELSE
                ProbeSitemapsNoBreak(Tail(urls), served,
                    [acc EXCEPT !.found = TRUE, !.accessible = TRUE,
                                !.checks = Append(acc.checks, CheckRecord("XML Sitemap", "warning", "Sitemap found but may be invalid", 0, by)),
                                !.issues = Append(acc.issues, Issue("warning", "sitemap", "medium", TRUE, "XML Sitemap", "warning", "Sitemap found but appears to be invalid XML", 0))],
                    by)
        ELSE ProbeSitemapsNoBreak(Tail(urls), served, acc, by)

RECURSIVE ProbeSitemaps(_, _, _, _)
\* for (const sitemapUrl of urlsToCheck) { try { ... } catch { continue } }
\* served[u]: [ok, status, xml, urls]: how the fetchWithProxy of u settles, whether
\* the content includes '<urlset' or '<sitemapindex', the number of '<url>' in it
ProbeSitemaps(urls, served, acc, by) ==
    IF urls = <<>> THEN acc
    ELSE LET r == served[Head(urls)] IN
        IF r.ok /\ r.status = 200 THEN
            IF r.xml THEN
                [acc EXCEPT !.found = TRUE, !.accessible = TRUE, !.valid = TRUE,
                            !.urlCount = acc.urlCount + r.urls,
                            !.checks = Append(acc.checks, CheckRecord("XML Sitemap", "passed", "Valid sitemap found with URLs", acc.urlCount + r.urls, by))]
            ELSE
                ProbeSitemaps(Tail(urls), served,
                    [acc EXCEPT !.found = TRUE, !.accessible = TRUE,
                                !.checks = Append(acc.checks, CheckRecord("XML Sitemap", "warning", "Sitemap found but may be invalid", 0, by)),
                                !.issues = Append(acc.issues, Issue("warning", "sitemap", "medium", TRUE, "XML Sitemap", "warning", "Sitemap found but appears to be invalid XML", 0))],
                    by)
        ELSE ProbeSitemaps(Tail(urls), served, acc, by)

analyzeSitemap(sitemapUrls, served, by) ==
    LET urlsToCheck == IF Len(sitemapUrls) > 0 THEN sitemapUrls ELSE commonSitemapUrls
        acc == ProbeSitemaps(urlsToCheck, served,
                   [found |-> FALSE, accessible |-> FALSE, valid |-> FALSE, urlCount |-> 0,
                    issues |-> <<>>, checks |-> <<>>], by)
        data == [exists |-> acc.found, accessible |-> acc.accessible, valid |-> acc.valid, urlCount |-> acc.urlCount]
    IN  IF ~acc.found THEN
            SiteOutcome(Append(acc.issues, Issue("warning", "sitemap", "medium", TRUE, "XML Sitemap", "warning", "No XML sitemap found", 0)),
                        Append(acc.checks, CheckRecord("XML Sitemap", "warning", "No sitemap found", 0, by)),
                        data)
        ELSE SiteOutcome(acc.issues, acc.checks, data)

\* links.forEach of analyzeSiteStructure; a relative href of the model is a path
internalLinks(doc, url) ==
    Cardinality({i \in DOMAIN doc.links : ~doc.links[i].abs \/ ParsedHost(doc.links[i].host) = ParsedHost(url[2])})

externalLinks(doc, url) ==
    Cardinality({i \in DOMAIN doc.links : doc.links[i].abs /\ ParsedHost(doc.links[i].host) # ParsedHost(url[2])})

\* analyzeSiteStructure from the point where its fetchWithProxy settles
analyzeSiteStructure(url, home, by) ==
    IF ~home.ok THEN
        SiteOutcome(<<Issue("error", "crawling", "high", TRUE, "Site Accessibility", "failed", "Failed to access site for analysis", 0)>>,
                    <<CheckRecord("Site Accessibility", "failed", "Failed to access site", 0, by)>>,
                    [accessible |-> FALSE, internalLinks |-> 0, externalLinks |-> 0, depth |-> 0])
    ELSE IF home.status # 200 THEN
        SiteOutcome(<<Issue("error", "crawling", "high", TRUE, "Site Accessibility", "failed", "Site returns HTTP error", home.status)>>,
                    <<CheckRecord("Site Accessibility", "failed", "HTTP error", home.status, by)>>,
                    [accessible |-> FALSE, internalLinks |-> 0, externalLinks |-> 0, depth |-> 0])
    ELSE
        LET doc == home.html
            nav ==
                IF ~doc.nav THEN
                    Outcome(<<Issue("warning", "structure", "medium", TRUE, "Navigation Structure", "warning", "No clear navigation structure found", 0)>>,
                            <<CheckRecord("Navigation Structure", "warning", "No clear navigation found", 0, by)>>)
                ELSE Outcome(<<>>, <<CheckRecord("Navigation Structure", "passed", "Navigation structure found", 0, by)>>)
            crumbs ==
                IF ~doc.breadcrumbs /\ internalLinks(doc, url) > 10 THEN
                    Outcome(<<Issue("info", "structure", "low", TRUE, "Breadcrumb Navigation", "info", "No breadcrumb navigation found", 0)>>,
                            <<CheckRecord("Breadcrumb Navigation", "info", "No breadcrumbs found", 0, by)>>)
                ELSE Outcome(<<>>, <<>>)
        IN  SiteOutcome(nav.issues \o crumbs.issues,
                        nav.checks \o crumbs.checks \o <<CheckRecord("Site Accessibility", "passed", "Site accessible", 0, by)>>,
                        [accessible |-> TRUE, internalLinks |-> internalLinks(doc, url),
                         externalLinks |-> externalLinks(doc, url), depth |-> 1])

\* switch (issue.type) of SiteAnalyzer.analyzeSite
SiteDeduct ==
    [tp \in Types \X Priorities |->
        CASE tp[1] = "error"   -> (IF tp[2] = "high" THEN 20 ELSE IF tp[2] = "medium" THEN 12 ELSE 6)
          [] tp[1] = "warning" -> (IF tp[2] = "high" THEN 10 ELSE IF tp[2] = "medium" THEN 6 ELSE 3)
          [] tp[1] = "info"    -> 2
          [] OTHER             -> 0]

\* SiteAnalyzer.analyzeSite after the reset.  site: what the network serves
\* ([robots, sitemaps, home]); the three evaluators catch their own retrieval
\* failures, so the catch block is entered only when one of them raises
\* otherwise.
analyzeSite(url0, site, by) ==
    LET url == NormalizeUrl(url0)
        robots == analyzeRobotsTxt(site.robots, by)
        outs == <<robots,
                  analyzeSitemap(robots.data.sitemaps, site.sitemaps, by),
                  analyzeSiteStructure(url, site.home, by)>>
        ran == Ran(outs)
        threw == Raised(outs)
        issues == IssuesOf(ran)
        failed == Append(issues, Issue("error", "crawling", "high", TRUE, "Site Analysis", "failed", "Site analysis failed", 0))
    IN  IF ~threw
           THEN Result("success", site.home.ok, url, calculateScore(issues, SiteDeduct), issues,
                       FilterActionable(issues), ChecksOf(ran),
                       [crawlability |-> [robots |-> outs[1].data, sitemap |-> outs[2].data],
                        siteStructure |-> outs[3].data])
           ELSE Result("failure", site.home.ok, url, 0, failed, FilterActionable(failed),
                       Append(ChecksOf(ran), CheckRecord("Site Analysis", "failed", "Analysis failed", 0, by)),
                       [crawlability |-> [robots |-> [exists |-> FALSE, accessible |-> FALSE, valid |-> FALSE, sitemaps |-> <<>>],
                                          sitemap |-> [exists |-> FALSE, accessible |-> FALSE, valid |-> FALSE, urlCount |-> 0]],
                        siteStructure |-> [accessible |-> FALSE, internalLinks |-> 0, externalLinks |-> 0, depth |-> 0]])

(***************************************************************************)
(* INPUTS: the url typed in and what the network serves                    *)
(***************************************************************************)
Urls == {<<"https://", "example.com">>, <<"http://", "example.com">>, <<"example.com">>,
         <<"HTTPS://", "example.com">>}

\* What a fetchWithProxy call settles with: ok = FALSE is the 'All proxy
\* attempts failed' error, otherwise { html, status, loadTime, responseHeaders }
Net(html, status, loadTime, encoding, cache) ==
    [ok |-> TRUE, html |-> html, status |-> status, loadTime |-> loadTime,
     headers |-> [encoding |-> encoding, cache |-> cache]]

FailedNet == [ok |-> FALSE, html |-> EmptyDoc, status |-> 0, loadTime |-> 0,
              headers |-> [encoding |-> "", cache |-> {}]]

Img(alt, lazy, dims) == [alt |-> alt, lazy |-> lazy, dims |-> dims]

\* a page on which every check passes
GoodDoc ==
    [robots |-> <<{"index", "follow"}>>, canonical |-> "href",
     canonicalHref |-> Link(FALSE, "", "", "", 0, FALSE), title |-> Text(45, 45),
     desc |-> Text(150, 150), viewport |-> TRUE, lang |-> TRUE, headings |-> <<1, 2, 3>>,
     jsonld |-> <<"valid">>, og |-> OgAll, stylesheets |-> 2, syncScripts |-> 1,
     images |-> <<Img(TRUE, TRUE, TRUE)>>, nav |-> TRUE, breadcrumbs |-> TRUE,
     links |-> <<>>, words |-> 1200]

GoodNet == Net(GoodDoc, 200, 800, "gzip", {"cache-control", "etag"})
\* an empty page served slowly with an error status and bare headers
BadNet == Net(EmptyDoc, 404, 4000, "", {})

\* canonical hrefs: '/', '/about/1', 'https://example.com/', 'https://EXAMPLE.COM',
\* 'http://example.com/' and 'https://other.com/'
CanonicalHrefs ==
    {Link(FALSE, "", "", "", 0, FALSE), Link(FALSE, "", "", "about", 1, FALSE),
     Link(TRUE, "https://", "example.com", "", 0, FALSE), Link(TRUE, "https://", "EXAMPLE.COM", "", 0, FALSE),
     Link(TRUE, "http://", "example.com", "", 0, FALSE), Link(TRUE, "https://", "other.com", "", 0, FALSE)}

\* the pages that differ from n in one respect
Vary(n) ==
       {[n EXCEPT !.html.robots = v] : v \in {<<>>, <<{}>>, <<{"noindex"}>>, <<{"nofollow"}>>, <<{"noindex", "nofollow"}>>}}
    \cup {[n EXCEPT !.html.canonical = v] : v \in {"absent", "empty", "invalid"}}
    \cup {[n EXCEPT !.html.canonical = "href", !.html.canonicalHref = v] : v \in CanonicalHrefs}
    \cup {[n EXCEPT !.html.title = v] : v \in {<<>>, Text(3, 0), Text(40, 0), Text(10, 10), Text(29, 29), Text(30, 30),
                                               Text(45, 5), Text(60, 60), Text(61, 61), Text(70, 70)}}
    \cup {[n EXCEPT !.html.desc = v] : v \in {<<>>, Text(2, 0), Text(50, 50), Text(120, 120), Text(160, 160), Text(200, 200)}}
    \cup {[n EXCEPT !.html.viewport = v] : v \in BOOLEAN}
    \cup {[n EXCEPT !.html.lang = v] : v \in BOOLEAN}
    \cup {[n EXCEPT !.html.headings = v] : v \in {<<>>, <<1>>, <<1, 1>>, <<1, 3>>, <<2, 3>>, <<1, 2, 3>>}}
    \cup {[n EXCEPT !.html.jsonld = v] : v \in {<<>>, <<"valid">>, <<"nofields">>, <<"unparseable">>,
                                                <<"valid", "unparseable">>, <<"unparseable", "nofields">>}}
    \cup {[n EXCEPT !.html.og = v] : v \in {{}, {"og:title"}, {"og:title", "og:description", "og:image"}, OgAll}}
    \cup {[n EXCEPT !.html.stylesheets = v] : v \in {0, 5, 6}}
    \cup {[n EXCEPT !.html.syncScripts = v] : v \in {0, 3, 4}}
    \cup {[n EXCEPT !.html.images = v] : v \in
            {<<>>, <<Img(FALSE, FALSE, FALSE)>>, <<Img(TRUE, FALSE, TRUE)>>,
             [i \in 1..4 |-> Img(TRUE, FALSE, TRUE)], [i \in 1..4 |-> Img(i > 1, i = 1, i > 2)]}}
    \cup {[n EXCEPT !.status = v] : v \in {200, 301, 404, 500}}
    \cup {[n EXCEPT !.loadTime = v] : v \in {800, 1500, 1501, 3000, 3001}}
    \cup {[n EXCEPT !.headers.encoding = v] : v \in {"", "gzip", "br", "identity"}}
    \cup {[n EXCEPT !.headers.cache = v] : v \in {{}, {"etag"}, {"cache-control"}, {"expires", "last-modified"}}}

Nets == {FailedNet} \cup Vary(GoodNet) \cup Vary(BadNet)

\* n links to the posts /blog/1 .. /blog/n, as relative hrefs
BlogLinks(n) == [i \in 1..n |-> Link(FALSE, "", "", "blog", i, FALSE)]

\* the links /blog/post-1, /about and https://other.com/blog/x, none with a
\* keyword in its text
ExampleLinks ==
    <<Link(FALSE, "", "", "blog", 1, FALSE), Link(FALSE, "", "", "about", 2, FALSE),
      Link(TRUE, "https://", "other.com", "blog", 3, FALSE)>>

LinkLists ==
    {<<>>,
     <<Link(FALSE, "", "", "about", 1, FALSE)>>,
     <<Link(FALSE, "", "", "about", 1, TRUE)>>,
     <<Link(TRUE, "https://", "other.org", "blog", 1, FALSE)>>,
     <<Link(FALSE, "", "", "blog", 1, FALSE), Link(FALSE, "", "", "blog", 1, TRUE), Link(FALSE, "", "", "news", 2, FALSE)>>,
     <<Link(TRUE, "http://", "example.com", "blog", 1, FALSE), Link(FALSE, "", "", "blog", 1, FALSE)>>,
     ExampleLinks,
     <<Link(FALSE, "", "", "blog", 2, FALSE), Link(TRUE, "https://", "example.com", "blog", 1, FALSE),
       Link(FALSE, "", "", "blog", 1, FALSE), Link(FALSE, "", "", "blog", 2, FALSE)>>,
     <<Link(TRUE, "https://", "EXAMPLE.COM", "blog", 1, FALSE), Link(FALSE, "", "", "blog", 1, FALSE)>>,
     <<Link(FALSE, "", "", "Blog", 3, FALSE), Link(TRUE, "https://", "other.com", "about", 1, TRUE)>>,
     BlogLinks(1), BlogLinks(5), BlogLinks(16), BlogLinks(21)}

Slugs == 1..21

ThinNet == Net([EmptyDoc EXCEPT !.words = 120, !.images = <<Img(FALSE, FALSE, FALSE)>>], 200, 800, "", {})
AdequateNet == Net([GoodDoc EXCEPT !.words = 500, !.headings = <<1>>], 200, 800, "", {})

\* what the network serves for the post with a given slug
PostServings ==
    {[k \in Slugs |-> FailedNet], [k \in Slugs |-> ThinNet], [k \in Slugs |-> GoodNet],
     [k \in Slugs |-> AdequateNet],
     [k \in Slugs |-> IF k % 3 = 0 THEN FailedNet ELSE IF k % 3 = 1 THEN GoodNet ELSE ThinNet]}

NoPosts == [k \in Slugs |-> FailedNet]

\* the robots.txt retrievals: [ok, status, hasUserAgent, sitemaps]
RobotsServings ==
    {[ok |-> FALSE, status |-> 0, hasUserAgent |-> FALSE, sitemaps |-> <<>>],
     [ok |-> TRUE, status |-> 404, hasUserAgent |-> FALSE, sitemaps |-> <<>>],
     [ok |-> TRUE, status |-> 500, hasUserAgent |-> TRUE, sitemaps |-> <<>>],
     [ok |-> TRUE, status |-> 200, hasUserAgent |-> FALSE, sitemaps |-> <<>>],
     [ok |-> TRUE, status |-> 200, hasUserAgent |-> TRUE, sitemaps |-> <<>>],
     [ok |-> TRUE, status |-> 200, hasUserAgent |-> TRUE, sitemaps |-> <<"/custom-sitemap.xml">>],
     [ok |-> TRUE, status |-> 200, hasUserAgent |-> FALSE, sitemaps |-> <<"/custom-sitemap.xml", "/news-sitemap.xml">>]}

SitemapUrls == Range(commonSitemapUrls) \cup {"/custom-sitemap.xml", "/news-sitemap.xml"}

SitemapFails == [ok |-> FALSE, status |-> 0, xml |-> FALSE, urls |-> 0]
SitemapMissing == [ok |-> TRUE, status |-> 404, xml |-> FALSE, urls |-> 0]
SitemapValid == [ok |-> TRUE, status |-> 200, xml |-> TRUE, urls |-> 3]
SitemapInvalid == [ok |-> TRUE, status |-> 200, xml |-> FALSE, urls |-> 0]
SitemapError == [ok |-> TRUE, status |-> 500, xml |-> FALSE, urls |-> 0]

\* the sitemap retrievals, per sitemap url
SitemapServings ==
    {[u \in SitemapUrls |-> SitemapFails],
     [u \in SitemapUrls |-> SitemapMissing],
     [u \in SitemapUrls |-> SitemapValid],
     [u \in SitemapUrls |-> SitemapInvalid],
     [u \in SitemapUrls |-> SitemapError],
     [u \in SitemapUrls |-> IF u \in {"/sitemap.xml", "/custom-sitemap.xml"} THEN SitemapInvalid ELSE SitemapValid],
     [u \in SitemapUrls |-> IF u = "/sitemaps.xml" THEN SitemapValid ELSE SitemapFails]}

\* the retrievals of the site's own url
HomeServings ==
    {FailedNet, GoodNet, BadNet, Net(EmptyDoc, 200, 800, "", {}),
     Net([GoodDoc EXCEPT !.breadcrumbs = FALSE,
                         !.links = [i \in 1..11 |-> Link(FALSE, "", "", "page", i, FALSE)]], 200, 800, "", {}),
     Net([GoodDoc EXCEPT !.breadcrumbs = FALSE, !.nav = FALSE,
                         !.links = [i \in 1..11 |-> Link(TRUE, "https://", "other.org", "page", i, FALSE)]], 200, 800, "", {})}

NoSite == [robots |-> [ok |-> FALSE, status |-> 0, hasUserAgent |-> FALSE, sitemaps |-> <<>>],
           sitemaps |-> [u \in SitemapUrls |-> SitemapFails], home |-> FailedNet]

Modules == {"technical", "pageSpeed", "quickWins", "blog", "site"}

\* the modules that analyse one page with one retrieval
PageModules == {"technical", "pageSpeed", "quickWins"}

\* the inputs of a module: [url, net, posts, site]; a part the module does not
\* retrieve is served nothing
Inputs(m) ==
    IF m \in PageModules THEN
        {[url |-> u, net |-> n, posts |-> NoPosts, site |-> NoSite] : u \in Urls, n \in Nets}
    ELSE IF m = "blog" THEN
        {[url |-> u, net |-> n, posts |-> ps, site |-> NoSite] :
            u \in Urls, n \in {FailedNet} \cup {[GoodNet EXCEPT !.html.links = l] : l \in LinkLists}, ps \in PostServings}
    ELSE
        {[url |-> u, net |-> h, posts |-> NoPosts, site |-> [robots |-> r, sitemaps |-> sm, home |-> h]] :
            u \in Urls, r \in RobotsServings, sm \in SitemapServings, h \in HomeServings}

(***************************************************************************)
(* THE ANALYZE CALLS                                                       *)
(***************************************************************************)
\* the number of analyze* calls made on the instance
MaxCalls == 2

\* the field keeps the array it refers to
keepAllChecks(h, ref) == [heap |-> h, ref |-> ref]

\* this.allChecks = []: a new array is allocated and the field refers to it
resetAllChecks(h, ref) == [heap |-> Append(h, <<>>), ref |-> Len(h) + 1]

\* The synchronous head of an analyze* method, up to its first await: the
\* accumulator is reset (the blog module has none) and the fetch is started.
Begin(m) ==
    /\ modName = m
    /\ Len(calls) < MaxCalls
    /\ calls' = Append(calls, [pc |-> "awaiting", url |-> input.url])
    /\ IF m # "blog"
          THEN /\ heap' = resetAllChecks(heap, allChecks).heap
               /\ allChecks' = resetAllChecks(heap, allChecks).ref
          ELSE UNCHANGED <<heap, allChecks>>
    /\ UNCHANGED <<modName, input, reports, csvContent, awaits, fetchVars>>

\* The rest of invocation c, from the settled await to the return statement:
\* the pushes go to the array this.allChecks refers to now, and the Report
\* carries that reference (allChecks: this.allChecks).  atReturn is history:
\* what that array held at the return.
End(m, c, res) ==
    /\ modName = m
    /\ calls[c].pc = "awaiting"
    /\ calls' = [calls EXCEPT ![c].pc = "returned"]
    /\ heap' = [heap EXCEPT ![allChecks] = @ \o res.pushes]
    /\ reports' = Append(reports,
          [by |-> c, module |-> m, path |-> res.path, fetched |-> res.fetched, url |-> res.url,
           score |-> res.score, issues |-> res.issues, actionableItems |-> res.actionableItems,
           allChecks |-> allChecks, atReturn |-> heap[allChecks] \o res.pushes, extra |-> res.extra])
    /\ UNCHANGED <<modName, input, allChecks, csvContent, awaits, fetchVars>>

TechnicalAnalyzePageBegin == Begin("technical")
TechnicalAnalyzePageEnd ==
    \E c \in DOMAIN calls : End("technical", c, technicalAnalyzePage(calls[c].url, input.net, c))

PageSpeedAnalyzePageBegin == Begin("pageSpeed")
PageSpeedAnalyzePageEnd ==
    \E c \in DOMAIN calls : End("pageSpeed", c, pageSpeedAnalyzePage(calls[c].url, input.net, c))

AnalyzeQuickWinsBegin == Begin("quickWins")
AnalyzeQuickWinsEnd ==
    \E c \in DOMAIN calls : End("quickWins", c, analyzeQuickWins(calls[c].url, input.net, c))

AnalyzeContentBegin == Begin("blog")
\* the retrievals of the posts follow one another inside the call
AnalyzeContentEnd ==
    \E c \in DOMAIN calls : End("blog", c, analyzeContent(calls[c].url, input.net, input.posts))

AnalyzeSiteBegin == Begin("site")
\* the retrievals of robots.txt, the sitemaps and the site follow one another
\* inside the call
AnalyzeSiteEnd ==
    \E c \in DOMAIN calls : End("site", c, analyzeSite(calls[c].url, input.site, c))

\* the caller awaits every analyze* call before it makes the next one
Sequential == \A c \in DOMAIN calls : calls[c].pc = "returned"

\* no fetchWithProxy call is followed attempt by attempt
NoAwaits == [settled |-> 0, pending |-> <<>>]

FetchIdle ==
    /\ fpc = "idle"
    /\ target = 0
    /\ now = 0
    /\ startTime = 0
    /\ attemptStart = 0
    /\ timerArmed = FALSE
    /\ respStatus = 0
    /\ log = <<>>
    /\ fresult = <<>>

AnalyzeIdle ==
    /\ modName = "none"
    /\ input = <<>>
    /\ allChecks = 1
    /\ heap = << <<>> >>
    /\ calls = <<>>
    /\ reports = <<>>
    /\ csvContent = <<>>
    /\ awaits = NoAwaits

InitFetch ==
    /\ FetchIdle
    /\ AnalyzeIdle

NextFetch ==
    \/ FetchWithProxy /\ UNCHANGED analyzeVars
    \/ ResponseArrives /\ UNCHANGED analyzeVars
    \/ FetchRejects /\ UNCHANGED analyzeVars
    \/ TimerFires /\ UNCHANGED analyzeVars
    \/ BodyResolves /\ UNCHANGED analyzeVars
    \/ BodyRejects /\ UNCHANGED analyzeVars

SpecFetch == InitFetch /\ [][NextFetch]_vars

\* a new analyzer instance (private allChecks = []) of some module, and the
\* url and network it will be used with
Init ==
    /\ FetchIdle
    /\ modName \in Modules
    /\ input \in Inputs(modName)
    /\ allChecks = 1
    /\ heap = << <<>> >>
    /\ calls = <<>>
    /\ reports = <<>>
    /\ csvContent = <<>>
    /\ awaits = NoAwaits

Next ==
    \/ Sequential /\ TechnicalAnalyzePageBegin
    \/ TechnicalAnalyzePageEnd
    \/ Sequential /\ PageSpeedAnalyzePageBegin
    \/ PageSpeedAnalyzePageEnd
    \/ Sequential /\ AnalyzeQuickWinsBegin
    \/ AnalyzeQuickWinsEnd
    \/ Sequential /\ AnalyzeContentBegin
    \/ AnalyzeContentEnd
    \/ Sequential /\ AnalyzeSiteBegin
    \/ AnalyzeSiteEnd

Spec == Init /\ [][Next]_vars

(***************************************************************************)
(* THE APPLICATION SESSION: audits of one module run one after the other,  *)
(* the network may serve something else for the next audit, and the        *)
(* Reports are shown.                                                      *)
(***************************************************************************)
\* const priorityOrder = { high: 3, medium: 2, low: 1 }
priorityOrder == [pr \in Priorities |-> IF pr = "high" THEN 3 ELSE IF pr = "medium" THEN 2 ELSE 1]

RECURSIVE InsertByPriorityOrder(_, _)
InsertByPriorityOrder(s, item) ==
    IF s = <<>> THEN <<item>>
    ELSE IF priorityOrder[Head(s).priority] >= priorityOrder[item.priority]
         THEN <<Head(s)>> \o InsertByPriorityOrder(Tail(s), item)
    ELSE <<item>> \o s

RECURSIVE sortByPriorityOrder(_)
\* items.sort((a, b) => priorityOrder[b.priority] - priorityOrder[a.priority]):
\* a stable sort, highest priority first
sortByPriorityOrder(items) ==
    IF items = <<>> THEN <<>>
    ELSE InsertByPriorityOrder(sortByPriorityOrder(SubSeq(items, 1, Len(items) - 1)), items[Len(items)])

\* The results component renders its actionables tab for the Report it was
\* given: result.actionableItems.sort(...).map(...).  Array.prototype.sort sorts
\* the array in place; the audit result the component holds is { ...result, id },
\* whose actionableItems is the array of the Report.
ShowActionablesTab ==
    /\ \E i \in DOMAIN reports :
          /\ reports[i].module \in {"technical", "pageSpeed", "site"}
          /\ Len(reports[i].actionableItems) > 0
          /\ reports' = [reports EXCEPT ![i].actionableItems = sortByPriorityOrder(@)]
    /\ UNCHANGED <<modName, input, allChecks, heap, calls, csvContent, awaits, fetchVars>>

\* downloadQuickWinsCSV: the quick-wins Report on display is exported
ExportCSV ==
    /\ \E i \in DOMAIN reports :
          /\ reports[i].module = "quickWins"
          /\ csvContent' = <<[of |-> i, text |-> generateCSVReport(reports[i])]>>
    /\ UNCHANGED <<modName, input, allChecks, heap, calls, reports, awaits, fetchVars>>

\* a page whose title and description hold commas, double quotes and a line break
PunctuatedNet ==
    [BadNet EXCEPT !.html.title = TextOf(22, 22, <<"Shoes", Comma, " ", Quote, "boots", Quote, Newline, "and more">>),
                   !.html.desc = TextOf(30, 30, <<Quote, Quote, Comma, Comma, "a", Newline, Quote>>),
                   !.html.headings = <<1, 1>>]

\* the inputs of a session: a few of the inputs of the module
SessionInputs(m) ==
    IF m \in PageModules THEN
        {[url |-> u, net |-> n, posts |-> NoPosts, site |-> NoSite] :
            u \in {<<"https://", "example.com">>, <<"example.com">>},
            n \in {FailedNet, GoodNet, BadNet, PunctuatedNet}}
    ELSE IF m = "blog" THEN
        {[url |-> u, net |-> n, posts |-> ps, site |-> NoSite] :
            u \in {<<"https://", "example.com">>},
            n \in {FailedNet, [GoodNet EXCEPT !.html.links = BlogLinks(5)]},
            ps \in {NoPosts, [k \in Slugs |-> ThinNet]}}
    ELSE
        {[url |-> u, net |-> h, posts |-> NoPosts, site |-> [robots |-> r, sitemaps |-> sm, home |-> h]] :
            u \in {<<"https://", "example.com">>},
            r \in {x \in RobotsServings : x.status \in {0, 404}},
            sm \in {[v \in SitemapUrls |-> SitemapFails], [v \in SitemapUrls |-> SitemapValid]},
            h \in {FailedNet, GoodNet, BadNet}}

\* between two audits the network comes to serve something else for the url
NetworkChanges ==
    /\ Sequential
    /\ Len(calls) >= 1
    /\ Len(calls) < MaxCalls
    /\ \E x \in SessionInputs(modName) :
          /\ x.url = input.url
          /\ x # input
          /\ input' = x
    /\ UNCHANGED <<modName, allChecks, heap, calls, reports, csvContent, awaits, fetchVars>>

InitSession ==
    /\ FetchIdle
    /\ modName \in Modules
    /\ input \in SessionInputs(modName)
    /\ allChecks = 1
    /\ heap = << <<>> >>
    /\ calls = <<>>
    /\ reports = <<>>
    /\ csvContent = <<>>
    /\ awaits = NoAwaits

NextSession ==
    \/ Sequential /\ TechnicalAnalyzePageBegin
    \/ TechnicalAnalyzePageEnd
    \/ Sequential /\ PageSpeedAnalyzePageBegin
    \/ PageSpeedAnalyzePageEnd
    \/ Sequential /\ AnalyzeQuickWinsBegin
    \/ AnalyzeQuickWinsEnd
    \/ Sequential /\ AnalyzeContentBegin
    \/ AnalyzeContentEnd
    \/ Sequential /\ AnalyzeSiteBegin
    \/ AnalyzeSiteEnd
    \/ NetworkChanges
    \/ ShowActionablesTab
    \/ ExportCSV

SpecSession == InitSession /\ [][NextSession]_vars

\* calls that overlap: a call may start while another awaits its fetch, on the
\* modules that keep an accumulator
InitOverlap ==
    /\ Init
    /\ modName # "blog"
    /\ input.url = <<"https://", "example.com">>

NextOverlap ==
    \/ TechnicalAnalyzePageBegin
    \/ TechnicalAnalyzePageEnd
    \/ PageSpeedAnalyzePageBegin
    \/ PageSpeedAnalyzePageEnd
    \/ AnalyzeQuickWinsBegin
    \/ AnalyzeQuickWinsEnd
    \/ AnalyzeSiteBegin
    \/ AnalyzeSiteEnd

SpecOverlap == InitOverlap /\ [][NextOverlap]_vars

(***************************************************************************)
(* ONE analyze CALL TOGETHER WITH THE RETRIEVAL LAYER: the call makes its  *)
(* fetchWithProxy calls one after the other, each runs attempt by attempt, *)
(* and the call returns when the last one has settled.  The input says how *)
(* each fetchWithProxy call settles; the attempts go any way that ends so. *)
(***************************************************************************)
RECURSIVE SitemapFetches(_, _)
\* for (const sitemapUrl of urlsToCheck): one fetchWithProxy per url, up to the
\* break at the first valid sitemap
SitemapFetches(urls, served) ==
    IF urls = <<>> THEN <<>>
    ELSE LET r == served[Head(urls)] IN
        IF r.ok /\ r.status = 200 /\ r.xml THEN <<r.ok>>
        ELSE <<r.ok>> \o SitemapFetches(Tail(urls), served)

\* analyzeRobotsTxt, analyzeSitemap and analyzeSiteStructure, awaited in turn
FetchesOfSite(site) ==
    LET sitemapUrls == analyzeRobotsTxt(site.robots, 0).data.sitemaps
        urlsToCheck == IF Len(sitemapUrls) > 0 THEN sitemapUrls ELSE commonSitemapUrls
    IN  <<site.robots.ok>> \o SitemapFetches(urlsToCheck, site.sitemaps) \o <<site.home.ok>>

\* the loop over the posts runs over every discovered url
FetchesOfContentUnbounded(url0, net, served) ==
    LET blogUrls == findBlogUrls(net.html, NormalizeUrl(url0))
    IN  <<net.ok>> \o (IF net.ok THEN [i \in 1..Len(blogUrls) |-> served[blogUrls[i].slug].ok] ELSE <<>>)

\* analyzeContent: the fetchWithProxy of the seed and, when it returned, one
\* analyzeBlogPost (one fetchWithProxy) for each i < maxPosts
FetchesOfContent(url0, net, served) ==
    LET blogUrls == findBlogUrls(net.html, NormalizeUrl(url0))
        maxPosts == Min(Len(blogUrls), 15)
    IN  <<net.ok>> \o (IF net.ok THEN [i \in 1..maxPosts |-> served[blogUrls[i].slug].ok] ELSE <<>>)

\* The fetchWithProxy calls the analyze call makes, in order: TRUE for one that
\* returns a result, FALSE for one that throws
Fetches ==
    IF modName \in PageModules THEN <<input.net.ok>>
    ELSE IF modName = "blog" THEN FetchesOfContent(input.url, input.net, input.posts)
    ELSE FetchesOfSite(input.site)

Awaiting == \E c \in DOMAIN calls : calls[c].pc = "awaiting"

\* the fetchWithProxy call in progress returns a result
Returns == Head(awaits.pending)

\* the analyze call reaches its next await this.fetchWithProxy(...)
LiveFetchWithProxy ==
    /\ Awaiting
    /\ awaits.pending # <<>>
    /\ FetchWithProxy
    /\ UNCHANGED analyzeVars

LiveResponseArrives == ResponseArrives /\ UNCHANGED analyzeVars

\* an attempt fails; the last one only when the call is to throw
LiveFetchRejects ==
    /\ fpc = "fetching"
    /\ target < Len(corsProxies) \/ ~Returns
    /\ FetchRejects
    /\ UNCHANGED analyzeVars

LiveTimerFires ==
    /\ fpc = "fetching"
    /\ target < Len(corsProxies) \/ ~Returns
    /\ TimerFires
    /\ UNCHANGED analyzeVars

LiveBodyResolves ==
    /\ fpc = "reading"
    /\ Returns
    /\ BodyResolves
    /\ UNCHANGED analyzeVars

LiveBodyRejects ==
    /\ fpc = "reading"
    /\ target < Len(corsProxies) \/ ~Returns
    /\ BodyRejects
    /\ UNCHANGED analyzeVars

\* the await of the analyze call settles with the result or the error.  What
\* the retrieval layer held for this fetchWithProxy call is dropped, and time
\* is counted from here on.
AwaitSettles ==
    /\ fpc \in {"returned", "thrown"}
    /\ awaits' = [settled |-> awaits.settled + 1, pending |-> Tail(awaits.pending)]
    /\ fpc' = "idle"
    /\ target' = 0
    /\ now' = 0
    /\ startTime' = 0
    /\ attemptStart' = 0
    /\ timerArmed' = FALSE
    /\ respStatus' = 0
    /\ log' = <<>>
    /\ fresult' = <<>>
    /\ UNCHANGED <<modName, input, allChecks, heap, calls, reports, csvContent>>

\* every fetchWithProxy call of the analyze call has settled
AllSettled == fpc = "idle" /\ awaits.pending = <<>>

\* the inputs: a page that is retrieved and one that is not; 20 discovered
\* posts of which every third is not retrieved; sitemaps named by robots.txt or
\* probed at the well-known urls
LiveInputs(m) ==
    IF m \in PageModules THEN
        {[url |-> <<"example.com">>, net |-> n, posts |-> NoPosts, site |-> NoSite] : n \in {FailedNet, GoodNet}}
    ELSE IF m = "blog" THEN
        {[url |-> <<"example.com">>, net |-> n, site |-> NoSite,
          posts |-> [k \in Slugs |-> IF k % 3 = 0 THEN FailedNet ELSE IF k % 3 = 1 THEN GoodNet ELSE ThinNet]] :
            n \in {FailedNet, [GoodNet EXCEPT !.html.links = BlogLinks(2)],
                   [GoodNet EXCEPT !.html.links = BlogLinks(21)]}}
    ELSE
        {[url |-> <<"example.com">>, net |-> h, posts |-> NoPosts, site |-> [robots |-> r, sitemaps |-> sm, home |-> h]] :
            r \in {x \in RobotsServings : x.status = 0 \/ Len(x.sitemaps) = 2},
            sm \in {[u \in SitemapUrls |-> IF u = "/sitemaps.xml" THEN SitemapValid ELSE SitemapFails]},
            h \in {FailedNet, GoodNet}}

InitLive ==
    /\ FetchIdle
    /\ modName \in Modules
    /\ input \in LiveInputs(modName)
    /\ allChecks = 1
    /\ heap = << <<>> >>
    /\ calls = <<>>
    /\ reports = <<>>
    /\ csvContent = <<>>
    /\ awaits = [settled |-> 0, pending |-> Fetches]

\* what the code itself does next: start the call, make the next
\* fetchWithProxy call, take its outcome, return the Report
ProgramStep ==
    \/ calls = <<>> /\ TechnicalAnalyzePageBegin
    \/ AllSettled /\ TechnicalAnalyzePageEnd
    \/ calls = <<>> /\ PageSpeedAnalyzePageBegin
    \/ AllSettled /\ PageSpeedAnalyzePageEnd
    \/ calls = <<>> /\ AnalyzeQuickWinsBegin
    \/ AllSettled /\ AnalyzeQuickWinsEnd
    \/ calls = <<>> /\ AnalyzeContentBegin
    \/ AllSettled /\ AnalyzeContentEnd
    \/ calls = <<>> /\ AnalyzeSiteBegin
    \/ AllSettled /\ AnalyzeSiteEnd
    \/ LiveFetchWithProxy
    \/ AwaitSettles

\* the pending fetch() settles or its timer fires
AttemptSettles ==
    \/ LiveResponseArrives
    \/ LiveFetchRejects
    \/ LiveTimerFires

\* the pending response.text() / response.json() settles
BodySettles ==
    \/ LiveBodyResolves
    \/ LiveBodyRejects

NextLive ==
    \/ ProgramStep
    \/ AttemptSettles
    \/ BodySettles

\* the Begin and End steps of ProgramStep, by what they do to calls: the call
\* starts, and it returns when every fetchWithProxy call has settled
CallTurns ==
    \/ calls = <<>> /\ calls' = Append(calls, [pc |-> "awaiting", url |-> input.url])
    \/ AllSettled /\ \E c \in DOMAIN calls :
                        calls[c].pc = "awaiting" /\ calls' = [calls EXCEPT ![c].pc = "returned"]

\* the other steps of ProgramStep: the call makes its next fetchWithProxy call,
\* it takes the outcome
CallProceeds ==
    \/ LiveFetchWithProxy
    \/ AwaitSettles

\* The event loop runs every continuation that is ready; every network attempt
\* eventually succeeds, fails or is aborted by its timer; every body that is
\* being read eventually arrives or breaks.
SpecLive ==
    /\ InitLive
    /\ [][NextLive]_vars
    /\ WF_calls(CallTurns)
    /\ WF_vars(CallProceeds)
    /\ WF_vars(AttemptSettles)
    /\ WF_vars(BodySettles)

(***************************************************************************)
(* PROPERTIES OF THE RETRIEVAL LAYER (SpecFetch)                           *)
(***************************************************************************)
\* C2: fetchWithProxy makes its attempts in the order direct request, then the
\* relays in list order, strictly one at a time: attempt number i goes to target
\* i - 1, an attempt starts only when the one before it has failed and not
\* before that one ended, the call returns the result of the first attempt that
\* does not fail and makes no attempt after it, and it throws only when the
\* direct attempt and every relay attempt have failed.
C2_AttemptsInOrder ==
    /\ \A i \in DOMAIN log : log[i].target = i - 1
    /\ \A i \in 1..(Len(log) - 1) : ~log[i].ok /\ log[i + 1].start >= log[i].end
    /\ fpc \in {"fetching", "reading"} =>
          /\ target = Len(log)
          /\ \A i \in DOMAIN log : ~log[i].ok /\ attemptStart >= log[i].end
    /\ fpc = "returned" =>
          /\ Len(log) >= 1
          /\ log[Len(log)].ok
          /\ Len(fresult) = 1
          /\ fresult[1].html = log[Len(log)].target
    /\ fpc = "thrown" =>
          /\ Len(log) = 1 + Len(corsProxies)
          /\ \A i \in DOMAIN log : ~log[i].ok
          /\ fresult = <<>>

\* C2 witness: the call has returned the result of the second relay, after the
\* direct attempt and the first relay failed
C2_ReturnedBySecondRelay ==
    /\ fpc = "returned"
    /\ Len(log) = 3
    /\ fresult[1].html = 2

\* C3: no retrieval attempt outlives its budget: from the call of
\* fetchWithTimeout to the end of the body read (or the failure of the attempt)
\* a direct attempt takes at most 5000 ms and a relay attempt at most 15000 ms.
C3_AttemptWithinBudget ==
    \A i \in DOMAIN log : log[i].end - log[i].start <= TimeoutOf(log[i].target)


(***************************************************************************)
(* PROPERTIES OF THE ANALYZERS (Spec, SpecOverlap)                         *)
(***************************************************************************)
\* the array a Report's allChecks refers to, as a caller reads it now
ChecksOfReport(r) == heap[r.allChecks]

\* the number of records of a given name
CountName(checks, name) == Cardinality({k \in DOMAIN checks : checks[k].name = name})

\* every retrieval the module makes for the input fails on the direct attempt
\* and on every relay
AllRetrievalsFail ==
    IF modName = "site"
       THEN /\ ~input.site.robots.ok
            /\ \A u \in SitemapUrls : ~input.site.sitemaps[u].ok
            /\ ~input.site.home.ok
       ELSE ~input.net.ok

\* C1: in each of the five modules, when the retrieval of the seed url fails on
\* every target, the call returns a Report with score 0 and exactly one finding,
\* an Error of high priority (for the quick-wins module: one quick win of high
\* impact).
C1_FailureReportMinimal ==
    AllRetrievalsFail =>
        \A i \in DOMAIN reports :
            /\ reports[i].score = 0
            /\ Len(reports[i].issues) = 1
            /\ IF reports[i].module = "quickWins"
                  THEN reports[i].issues[1].impact = "high"
                  ELSE reports[i].issues[1].type = "error" /\ reports[i].issues[1].priority = "high"

\* C4: the allChecks of every returned Report holds only records pushed by the
\* invocation that returned it, also when calls on the instance overlap.
C4_OwnAccumulator ==
    \A i \in DOMAIN reports :
        \A k \in DOMAIN ChecksOfReport(reports[i]) :
            ChecksOfReport(reports[i])[k].by = reports[i].by

\* the named checks of a single-page module
CheckNames(m) ==
    IF m = "technical" THEN
        {"HTTP Status Code", "HTTPS Security", "Robots Meta - Indexing", "Robots Meta - Following",
         "Canonical Tag", "Title Tag", "Meta Description", "Viewport Meta Tag", "Language Declaration",
         "H1 Tag", "Header Hierarchy", "Structured Data", "Open Graph Tags"}
    ELSE IF m = "pageSpeed" THEN
        {"Page Load Time", "CSS Files", "Render-blocking JS", "Image Lazy Loading", "Image Dimensions",
         "Text Compression", "Browser Caching"}
    ELSE
        {"Title Tag", "Meta Description", "HTTPS Security", "Mobile Viewport", "H1 Heading",
         "Image Alt Text", "Page Speed", "Canonical URL", "Language Declaration", "Social Media Tags"}

\* C5: in a single-page module the allChecks of every successful Report has one
\* record per check of the module, whatever the page: its length is the number
\* of checks and no check has zero or two records.
C5_OneRecordPerCheck ==
    \A i \in DOMAIN reports :
        (reports[i].module \in PageModules /\ reports[i].path = "success") =>
            /\ Len(ChecksOfReport(reports[i])) = Cardinality(CheckNames(reports[i].module))
            /\ \A n \in CheckNames(reports[i].module) : CountName(ChecksOfReport(reports[i]), n) = 1

\* C6: the score of every returned Report is an integer from 0 to 100, in every
\* module and on every path.
C6_ScoreInRange ==
    \A i \in DOMAIN reports : reports[i].score \in 0..100

\* C6 witness: a successful technical Report whose deductions add up to more
\* than 100, and a blog Report whose post penalties do
C6_DeductionsExceedHundred ==
    \E i \in DOMAIN reports :
        /\ reports[i].path = "success"
        /\ \/ /\ reports[i].module = "technical"
              /\ SumDeductions(reports[i].issues, TechnicalDeduct) > 100
           \/ /\ reports[i].module = "blog"
              /\ reports[i].extra.summary.thinContent * 10 + reports[i].extra.summary.missingMetaDescriptions * 8 > 100

\* the index in issues of the k-th actionable issue
KthActionable(issues, k) ==
    CHOOSE i \in DOMAIN issues :
        /\ issues[i].actionable
        /\ Cardinality({j \in 1..(i - 1) : issues[j].actionable}) = k - 1

\* C7: in every Report of the technical, page-speed and site modules, on the
\* success and the failure path, actionableItems is the subsequence of issues
\* whose actionable flag is true: as many elements as there are actionable
\* issues, the k-th being the k-th actionable issue.
C7_ActionableSubsequence ==
    \A i \in DOMAIN reports :
        reports[i].module \in {"technical", "pageSpeed", "site"} =>
            LET issues == reports[i].issues
                items == reports[i].actionableItems
            IN  /\ Len(items) = Cardinality({j \in DOMAIN issues : issues[j].actionable})
                /\ \A k \in DOMAIN items : items[k] = issues[KthActionable(issues, k)]

\* C7 witness: a Report with actionable issues and others between them
C7_MixedIssues ==
    \E i \in DOMAIN reports :
        /\ reports[i].module \in {"technical", "pageSpeed", "site"}
        /\ \E a, b, c \in DOMAIN reports[i].issues :
              /\ a < b /\ b < c
              /\ reports[i].issues[a].actionable
              /\ ~reports[i].issues[b].actionable
              /\ reports[i].issues[c].actionable

\* a record as the caller sees it (by is history)
Visible(checks) == [k \in DOMAIN checks |-> [name |-> checks[k].name, status |-> checks[k].status, result |-> checks[k].result]]

\* C8: two analyses run one after the other on the same instance with the same
\* retrieval result return the same issues, the same allChecks (same records,
\* same order, same length, each read when its Report is returned) and the same
\* score.
C8_Deterministic ==
    \A i, j \in DOMAIN reports :
        /\ reports[i].issues = reports[j].issues
        /\ reports[i].score = reports[j].score
        /\ Visible(reports[i].atReturn) = Visible(reports[j].atReturn)

\* C8 witness: the second of two successive analyses has returned, with records
C8_SecondReport ==
    /\ Len(reports) >= 2
    /\ reports[1].by # reports[2].by
    /\ Len(reports[2].atReturn) > 1

\* the page of the input makes a check of the technical module fail internally:
\* a JSON-LD script that does not parse, or a canonical href that is no url
InternalFailure ==
    /\ modName = "technical"
    /\ input.net.ok
    /\ \/ "unparseable" \in Range(input.net.html.jsonld)
       \/ input.net.html.canonical = "invalid"

\* the check that fails internally
FailingChecks ==
    (IF "unparseable" \in Range(input.net.html.jsonld) THEN {"Structured Data"} ELSE {})
    \cup (IF input.net.html.canonical = "invalid" THEN {"Canonical Tag"} ELSE {})

\* C9: a check that fails internally does not abort the others: the failure
\* gives one error issue and one failed record of that check, the analysis stays
\* on its success path, and every other check of the page has its record.
C9_ChecksIsolated ==
    InternalFailure =>
        \A i \in DOMAIN reports :
            /\ reports[i].path = "success"
            /\ \A n \in FailingChecks :
                  /\ Cardinality({j \in DOMAIN reports[i].issues :
                         reports[i].issues[j].checkName = n /\ reports[i].issues[j].type = "error"}) = 1
                  /\ Cardinality({k \in DOMAIN ChecksOfReport(reports[i]) :
                         ChecksOfReport(reports[i])[k].name = n /\ ChecksOfReport(reports[i])[k].status = "failed"}) = 1
            /\ \A n \in CheckNames("technical") : CountName(ChecksOfReport(reports[i]), n) >= 1
            /\ CountName(ChecksOfReport(reports[i]), "Page Analysis") = 0

\* C9 witness: a Report of a page with a JSON-LD script that does not parse
C9_UnparseableAnalysed ==
    /\ InternalFailure
    /\ "unparseable" \in Range(input.net.html.jsonld)
    /\ Len(reports) >= 1

\* the deduction tables as stated: type and priority to points
StatedTable(m) ==
    [tp \in Types \X Priorities |->
        IF tp[1] = "error" THEN
            (IF m = "pageSpeed" THEN (IF tp[2] = "high" THEN 25 ELSE IF tp[2] = "medium" THEN 15 ELSE 8)
             ELSE (IF tp[2] = "high" THEN 20 ELSE IF tp[2] = "medium" THEN 12 ELSE 6))
        ELSE IF tp[1] = "warning" THEN
            (IF m = "pageSpeed" THEN (IF tp[2] = "high" THEN 12 ELSE IF tp[2] = "medium" THEN 8 ELSE 4)
             ELSE (IF tp[2] = "high" THEN 10 ELSE IF tp[2] = "medium" THEN 6 ELSE 3))
        ELSE IF tp[1] = "info" THEN (IF m = "technical" THEN 1 ELSE 2)
        ELSE 0]

RECURSIVE StatedSum(_, _)
StatedSum(issues, m) ==
    IF issues = <<>> THEN 0
    ELSE StatedTable(m)[<<Head(issues).type, Head(issues).priority>>] + StatedSum(Tail(issues), m)

\* C10: in the technical, page-speed and site modules the score of the analysis
\* of a page that was retrieved is max(0, 100 - the sum of the stated deductions
\* over the issues of the Report).
C10_ScoreIsStatedSum ==
    \A i \in DOMAIN reports :
        (reports[i].module \in {"technical", "pageSpeed", "site"} /\ reports[i].fetched) =>
            reports[i].score = Max(0, 100 - StatedSum(reports[i].issues, reports[i].module))


RECURSIVE SumDurations(_)
\* the time the finished attempts of the call took, added up
SumDurations(l) ==
    IF l = <<>> THEN 0 ELSE (Head(l).end - Head(l).start) + SumDurations(Tail(l))

\* C11: whenever fetchWithProxy returns, the loadTime of its result is at least
\* the sum of the durations of all attempts made in the call, the failed direct
\* attempt and every failed relay attempt included: the time is measured from
\* the start of the call, not of the attempt that returned.
C11_LoadTimeCoversAllAttempts ==
    fpc = "returned" =>
        /\ fresult[1].loadTime >= SumDurations(log)
        /\ fresult[1].loadTime = log[Len(log)].end - log[1].start

\* C11 witness: the call returned on a relay after attempts that failed and
\* took time
C11_ReturnedAfterFailures ==
    /\ fpc = "returned"
    /\ Len(log) >= 3
    /\ SumDurations(SubSeq(log, 1, Len(log) - 1)) > 0
    /\ fresult[1].loadTime > log[Len(log)].end - log[Len(log)].start


(***************************************************************************)
(* PROPERTIES OF THE DISCOVERY AND THE MINI-CRAWL (Spec)                   *)
(***************************************************************************)
\* the url a link stands for, read off the link as it is written in the page
WrittenUrl(link, base) ==
    IF link.abs THEN [scheme |-> link.scheme, host |-> link.host, dir |-> link.dir, slug |-> link.slug]
    ELSE [scheme |-> base[1], host |-> ParsedHost(base[2]), dir |-> link.dir, slug |-> link.slug]

\* C12: findBlogUrls returns a URL only if its hostname equals the hostname of
\* the seed URL and it matches one of the fixed path patterns or the text of its
\* link contains one of the fixed keywords; the links /blog/post-1, /about and
\* https://other.com/blog/x (no keyword in their texts) yield exactly the first,
\* resolved against the seed.
C12_OnlySameHostBlogLinks ==
    \A i \in DOMAIN reports :
        reports[i].module = "blog" =>
            LET found == reports[i].extra.blogUrls
                links == input.net.html.links
                base == reports[i].url
            IN  /\ \A k \in DOMAIN found :
                      /\ ParsedHost(found[k].host) = ParsedHost(base[2])
                      /\ \E j \in DOMAIN links :
                            /\ WrittenUrl(links[j], base) = found[k]
                            /\ ToLowerCase(found[k].dir) \in BlogDirs \/ links[j].text
                /\ (input.net.ok /\ links = ExampleLinks) =>
                      found = <<[scheme |-> base[1], host |-> ParsedHost(base[2]), dir |-> "blog", slug |-> 1]>>

\* C12 witness: the blog analysis of https://example.com served the three links
\* of the example has returned, with one URL discovered
C12_ExampleDiscovered ==
    \E i \in DOMAIN reports :
        /\ reports[i].module = "blog"
        /\ input.net.ok
        /\ input.net.html.links = ExampleLinks
        /\ reports[i].url = <<"https://", "example.com">>
        /\ Len(reports[i].extra.blogUrls) = 1

\* the position in the document of the first link that put u on the list
FirstSeen(u, links, base) ==
    CHOOSE j \in DOMAIN links :
        /\ IsBlogCandidate(links[j], base) /\ FullUrl(links[j], base) = u
        /\ \A h \in 1..(j - 1) : ~(IsBlogCandidate(links[h], base) /\ FullUrl(links[h], base) = u)

\* C13: the list findBlogUrls returns has no two entries that resolve to the
\* same absolute URL, whether a link was written as a relative href or as an
\* absolute one, and its entries are in the order in which each URL was first
\* seen in the document.
C13_NoDuplicateUrls ==
    \A i \in DOMAIN reports :
        reports[i].module = "blog" =>
            LET found == reports[i].extra.blogUrls
                links == input.net.html.links
                base == reports[i].url
            IN  /\ \A a, b \in DOMAIN found : a # b => Href(found[a]) # Href(found[b])
                /\ \A a, b \in DOMAIN found :
                      a < b => FirstSeen(found[a], links, base) < FirstSeen(found[b], links, base)


\* C14: the mini-crawl is bounded: in every blog Report totalPosts is at most 20
\* and scannedPosts at most 15; the pages fetched are the first min(totalPosts,
\* 15) discovered candidates in discovery order, one fetch call each, and no
\* url outside the discovered list is fetched besides the seed.
C14_CrawlBounded ==
    \A i \in DOMAIN reports :
        reports[i].module = "blog" =>
            LET x == reports[i].extra IN
            /\ x.totalPosts <= 20
            /\ x.scannedPosts <= 15
            /\ Len(x.blogUrls) <= 20
            /\ Len(x.fetches) = Min(x.totalPosts, 15)
            /\ \A k \in DOMAIN x.fetches : x.fetches[k] = x.blogUrls[k]
            /\ \A k \in DOMAIN x.fetches : x.fetches[k] \in Range(x.blogUrls)

\* C14 witness: a page with 21 blog links: 20 candidates are reported, 15 fetched
C14_BothCapsReached ==
    \E i \in DOMAIN reports :
        /\ reports[i].module = "blog"
        /\ Len(input.net.html.links) = 21
        /\ reports[i].extra.totalPosts = 20
        /\ reports[i].extra.scannedPosts = 15
        /\ Len(reports[i].extra.fetches) = 15

\* the metrics a finding has for a page, read off the page
MetricsOfPage(doc) ==
    [wordCount |-> doc.words, h1Count |-> CountOf(doc.headings, 1), h2Count |-> CountOf(doc.headings, 2),
     imageCount |-> Len(doc.images)]

\* C15: a candidate that fails never aborts the batch: when the retrieval of
\* any of the candidate pages fails, analyzeContent still returns a Report with
\* one finding per attempted candidate (scannedPosts = min(totalPosts, 15)), in
\* candidate order; the finding of a failed candidate is a placeholder with all
\* numeric metrics 0, hasMetaDescription false and quality thin, and the findings
\* of the other candidates are those of their pages.
C15_FailedCandidateIsPlaceholder ==
    \A i \in DOMAIN reports :
        (reports[i].module = "blog" /\ input.net.ok /\ Len(reports[i].extra.blogUrls) > 0) =>
            LET x == reports[i].extra IN
            /\ reports[i].path = "success"
            /\ x.scannedPosts = Min(x.totalPosts, 15)
            /\ Len(x.posts) = x.scannedPosts
            /\ \A k \in DOMAIN x.posts :
                  LET post == x.posts[k]
                      served == input.posts[x.blogUrls[k].slug]
                  IN  /\ post.url = x.blogUrls[k]
                      /\ ~served.ok =>
                            /\ post.wordCount = 0 /\ post.readingTime = 0 /\ post.metaDescriptionLength = 0
                            /\ post.h1Count = 0 /\ post.h2Count = 0
                            /\ post.imageCount = 0 /\ post.imagesWithoutAlt = 0
                            /\ post.internalLinks = 0 /\ post.externalLinks = 0
                            /\ ~post.hasMetaDescription
                            /\ post.contentQuality = "thin"
                      /\ served.ok =>
                            /\ [f \in DOMAIN MetricsOfPage(served.html) |-> post[f]] = MetricsOfPage(served.html)
                            /\ post.title # "Failed to analyze"

\* C15 witness: a Report whose candidates were partly retrieved and partly not,
\* a failed one in front of a retrieved one
C15_MixedBatch ==
    \E i \in DOMAIN reports :
        /\ reports[i].module = "blog"
        /\ \E a, b \in DOMAIN reports[i].extra.posts :
              /\ a < b
              /\ reports[i].extra.posts[a].failed
              /\ ~reports[i].extra.posts[b].failed
              /\ reports[i].extra.posts[b].wordCount > 0


(***************************************************************************)
(* PROPERTIES OF THE SESSION (SpecSession)                                 *)
(***************************************************************************)
\* C16: a Report is immutable once returned: no later step, be it a later
\* analyze call on the analyzer or the presentation layer showing the Report
\* (its actionables tab orders the items by priority), changes a field of it,
\* the order of the elements of issues, actionableItems and allChecks included.
C16_ReportImmutable ==
    [][\A i \in DOMAIN reports :
          /\ reports'[i] = reports[i]
          /\ heap'[reports[i].allChecks] = heap[reports[i].allChecks]]_vars

\* C17: the accumulator is reset at the start of every analyze call: after any
\* sequence of calls that do not overlap, successful or failing in any order,
\* the allChecks of the k-th Report returned holds the records pushed during the
\* k-th call, all of them and no record of an earlier call.
C17_AccumulatorReset ==
    \A i \in DOMAIN reports :
        reports[i].module # "blog" =>
            /\ reports[i].by = i
            /\ Len(ChecksOfReport(reports[i])) >= 1
            /\ \A k \in DOMAIN ChecksOfReport(reports[i]) : ChecksOfReport(reports[i])[k].by = i
            /\ reports[i].path = "failure" /\ ~reports[i].fetched =>
                  Len(ChecksOfReport(reports[i])) = 1

\* C17 witness: a failing call and then a successful one have returned, or the
\* other way round, each with records
C17_FailureThenSuccess ==
    /\ Len(reports) >= 2
    /\ reports[1].module # "blog"
    /\ reports[1].path # reports[2].path
    /\ Len(ChecksOfReport(reports[1])) >= 1
    /\ Len(ChecksOfReport(reports[2])) > 1


RECURSIVE ReadField(_, _, _, _)
\* A standard CSV reader, field by field.  The field that starts at position i
\* of the text: quoted tells whether the reader is inside a quoted part, where
\* two double quotes are one double quote and a single one ends the quoted
\* part; outside, a double quote at the start of the field opens a quoted part
\* and a comma or a line break ends the field.  end is the position of what
\* ended the field.
ReadField(text, i, quoted, field) ==
    IF i > Len(text) THEN [field |-> field, end |-> i]
    ELSE IF quoted THEN
        IF text[i] = Quote THEN
            IF i < Len(text) /\ text[i + 1] = Quote
               THEN ReadField(text, i + 2, TRUE, Append(field, Quote))
               ELSE ReadField(text, i + 1, FALSE, field)
        ELSE ReadField(text, i + 1, TRUE, Append(field, text[i]))
    ELSE IF text[i] \in {Comma, Newline} THEN [field |-> field, end |-> i]
    ELSE IF text[i] = Quote /\ field = <<>> THEN ReadField(text, i + 1, TRUE, field)
    ELSE ReadField(text, i + 1, FALSE, Append(field, text[i]))

RECURSIVE ReadRecord(_, _, _)
\* the record that starts at position i: its fields up to a line break
ReadRecord(text, i, record) ==
    LET f == ReadField(text, i, FALSE, <<>>) IN
    IF f.end <= Len(text) /\ text[f.end] = Comma
       THEN ReadRecord(text, f.end + 1, Append(record, f.field))
       ELSE [record |-> Append(record, f.field), end |-> f.end]

RECURSIVE ReadRecords(_, _, _)
ReadRecords(text, i, records) ==
    LET r == ReadRecord(text, i, <<>>) IN
    IF r.end > Len(text) THEN Append(records, r.record)
    ELSE ReadRecords(text, r.end + 1, Append(records, r.record))

\* the records a standard CSV reader reads in a text
ReadCsv(text) == ReadRecords(text, 1, <<>>)

\* the data rows: the records behind the record of the column header
DataRows(records) ==
    LET head == CHOOSE h \in DOMAIN records :
                    /\ records[h] = [k \in DOMAIN headers |-> <<headers[k]>>]
                    /\ \A g \in 1..(h - 1) : records[g] # [k \in DOMAIN headers |-> <<headers[k]>>]
    IN  SubSeq(records, head + 1, Len(records))

\* C18: CSV round trip: for every quick-wins Report, each data row that
\* generateCSVReport writes, read back by a standard CSV reader, gives exactly
\* the field strings of its quick win, also when a field holds commas, double
\* quotes or line breaks; there are as many data rows as quick wins and every
\* row has as many fields as the column header.
C18_CsvRoundTrip ==
    csvContent # <<>> =>
        LET wins == reports[csvContent[1].of].issues
            rows == DataRows(ReadCsv(csvContent[1].text))
        IN  /\ Len(rows) = Len(wins)
            /\ \A k \in DOMAIN rows :
                  /\ Len(rows[k]) = Len(headers)
                  /\ rows[k] = rowOf(wins[k])

\* C18 witness: the export of a Report with a quick win whose recommendation
\* holds a comma and double quotes, and one whose element holds a comma, double
\* quotes and a line break
C18_PunctuatedExport ==
    /\ csvContent # <<>>
    /\ \E k \in DOMAIN reports[csvContent[1].of].issues :
          {Quote, Comma} \subseteq Range(reports[csvContent[1].of].issues[k].recommendation)
    /\ \E k \in DOMAIN reports[csvContent[1].of].issues :
          {Quote, Comma, Newline} \subseteq Range(reports[csvContent[1].of].issues[k].element)


(***************************************************************************)
(* PROPERTIES OF THE ENTRY POINTS AND OF SINGLE CHECKS (Spec)              *)
(***************************************************************************)
\* the input carries a scheme: it starts with a scheme name and '://' (scheme
\* names are read without regard to case)
CarriesScheme(url) == Len(url) > 0 /\ url[1] \in {"http://", "https://", "HTTPS://"}

\* C19: at every analyze entry point the input url is prefixed with https://
\* exactly when it carries no scheme and left unchanged when it carries one;
\* normalising a normalised url changes nothing; the url of the Report, on the
\* success and on the failure path, is the normalised url.
C19_UrlNormalised ==
    \A i \in DOMAIN reports :
        /\ CarriesScheme(input.url) => reports[i].url = input.url
        /\ ~CarriesScheme(input.url) => reports[i].url = <<"https://">> \o input.url
        /\ NormalizeUrl(reports[i].url) = reports[i].url

\* the issues and the records of the Title Tag check in a Report
TitleIssues(r) == SelectSeq(r.issues, LAMBDA x : x.checkName = "Title Tag")
TitleRecords(r) == SelectSeq(ChecksOfReport(r), LAMBDA x : x.name = "Title Tag")

\* C20: the title check of the technical module, for every page retrieved: no
\* title or a blank one gives one Error/high issue and a failed record; a title
\* of length below 30 or above 60 gives one Warning/medium issue and a warning
\* record; a title of length 30 to 60 inclusive gives one Success/low issue and
\* a passed record whose message holds the length; exactly one of the three
\* occurs.
C20_TitleCheck ==
    \A i \in DOMAIN reports :
        (reports[i].module = "technical" /\ input.net.ok) =>
            LET title == input.net.html.title
                blank == title = <<>> \/ title[1].trimLen = 0
                issue == TitleIssues(reports[i])
                record == TitleRecords(reports[i])
            IN  /\ Len(issue) = 1
                /\ Len(record) = 1
                /\ IF blank THEN
                      /\ issue[1].type = "error" /\ issue[1].priority = "high"
                      /\ record[1].status = "failed"
                   ELSE IF title[1].len < 30 \/ title[1].len > 60 THEN
                      /\ issue[1].type = "warning" /\ issue[1].priority = "medium"
                      /\ record[1].status = "warning"
                   ELSE
                      /\ issue[1].type = "success" /\ issue[1].priority = "low"
                      /\ record[1].status = "passed"
                      /\ record[1].result.n = title[1].len
                      /\ issue[1].message.n = title[1].len

\* C20 witness: the Report of a page whose title has 60 characters
C20_TitleOfSixty ==
    \E i \in DOMAIN reports :
        /\ reports[i].module = "technical"
        /\ input.net.ok
        /\ input.net.html.title # <<>>
        /\ input.net.html.title[1].len = 60
        /\ TitleRecords(reports[i])[1].status = "passed"


\* the issues and the records of the Canonical Tag check in a Report
CanonicalIssues(r) == SelectSeq(r.issues, LAMBDA x : x.checkName = "Canonical Tag")
CanonicalRecords(r) == SelectSeq(ChecksOfReport(r), LAMBDA x : x.name = "Canonical Tag")

\* C21: the canonical check of the technical module, for every page retrieved
\* and every page url: no canonical link gives Warning/medium; an empty or
\* unparseable href gives Error/high; a canonical that resolves to an absolute
\* url other than the page url gives Info/low; one that resolves to the page url
\* gives Success/low; there is exactly one issue and one record named
\* 'Canonical Tag', and the status of the record is that of the issue.
C21_CanonicalCheck ==
    \A i \in DOMAIN reports :
        (reports[i].module = "technical" /\ input.net.ok) =>
            LET doc == input.net.html
                issue == CanonicalIssues(reports[i])
                record == CanonicalRecords(reports[i])
                verdict ==
                    IF doc.canonical = "absent" THEN <<"warning", "medium", "warning">>
                    ELSE IF doc.canonical \in {"empty", "invalid"} THEN <<"error", "high", "failed">>
                    ELSE IF canonicalUrlObj(doc.canonicalHref, reports[i].url) = currentUrlObj(reports[i].url)
                         THEN <<"success", "low", "passed">>
                    ELSE <<"info", "low", "info">>
            IN  /\ Len(issue) = 1
                /\ Len(record) = 1
                /\ <<issue[1].type, issue[1].priority, issue[1].status>> = verdict
                /\ record[1].status = issue[1].status

\* C21 witness: the canonical 'https://EXAMPLE.COM' on the page
\* 'https://example.com' is self-referencing, and a Report of it exists
C21_SelfByResolution ==
    \E i \in DOMAIN reports :
        /\ reports[i].module = "technical"
        /\ input.net.ok
        /\ input.net.html.canonical = "href"
        /\ input.net.html.canonicalHref.host = "EXAMPLE.COM"
        /\ CanonicalRecords(reports[i])[1].status = "passed"


\* the stated classes of an elapsed time in milliseconds
StatedLoadTimeClass(t) ==
    IF t > 3000 THEN "error"
    ELSE IF t >= 1500 THEN "warning"
    ELSE "success"

\* the class a status of a CheckRecord stands for, in the page-speed module
\* (failed, warning, passed) and in the quick-wins module (critical,
\* needs-improvement, passed)
ClassOfStatus(status) ==
    IF status \in {"failed", "critical"} THEN "error"
    ELSE IF status \in {"warning", "needs-improvement"} THEN "warning"
    ELSE "success"

\* the records of the load time check: 'Page Load Time' in the page-speed
\* module, 'Page Speed' in the quick-wins module
LoadTimeRecords(r) ==
    SelectSeq(ChecksOfReport(r), LAMBDA x : x.name \in {"Page Load Time", "Page Speed"})

\* C22: the load time check, for every page retrieved in t milliseconds:
\* t > 3000 gives Error, 1500 <= t <= 3000 gives Warning, t < 1500 gives
\* Success, in the page-speed module and in the quick-wins module alike.
C22_LoadTimeCheck ==
    \A i \in DOMAIN reports :
        (reports[i].module \in {"pageSpeed", "quickWins"} /\ input.net.ok) =>
            /\ Len(LoadTimeRecords(reports[i])) = 1
            /\ ClassOfStatus(LoadTimeRecords(reports[i])[1].status) = StatedLoadTimeClass(input.net.loadTime)


\* the issues and the records of the Structured Data check in a Report
StructuredDataIssues(r) == SelectSeq(r.issues, LAMBDA x : x.checkName = "Structured Data")
StructuredDataRecords(r) == SelectSeq(ChecksOfReport(r), LAMBDA x : x.name = "Structured Data")

\* C23: the structured data check of the technical module, for every page
\* retrieved: a script is valid only if it parses and has @context and @type;
\* the verdict is Error/high if any script is invalid, Warning/medium if there
\* is no script, Success/low if at least one script is valid; the page gets one
\* verdict: one issue and one record named 'Structured Data'.
C23_StructuredDataVerdict ==
    \A i \in DOMAIN reports :
        (reports[i].module = "technical" /\ input.net.ok) =>
            LET scripts == input.net.html.jsonld
                issue == StructuredDataIssues(reports[i])
                record == StructuredDataRecords(reports[i])
                verdict ==
                    IF \E k \in DOMAIN scripts : scripts[k] # "valid" THEN <<"error", "high", "failed">>
                    ELSE IF scripts = <<>> THEN <<"warning", "medium", "warning">>
                    ELSE <<"success", "low", "passed">>
            IN  /\ Len(issue) = 1
                /\ Len(record) = 1
                /\ <<issue[1].type, issue[1].priority, issue[1].status>> = verdict
                /\ record[1].status = verdict[3]


(***************************************************************************)
(* PROPERTIES OF THE SITE MODULE (Spec)                                    *)
(***************************************************************************)
\* the issues of a category in a Report, and the records of a name
IssuesOfCategory(r, category) == SelectSeq(r.issues, LAMBDA x : x.category = category)
RecordsNamed(r, name) == SelectSeq(ChecksOfReport(r), LAMBDA x : x.name = name)

\* an issue of the given type and priority is in the sequence
HasIssue(issues, type, priority) ==
    \E k \in DOMAIN issues : issues[k].type = type /\ issues[k].priority = priority

\* the sitemap urls a site analysis probes: those robots.txt names, or else the
\* well-known ones
ProbedSitemaps(site) ==
    IF site.robots.ok /\ site.robots.status = 200 /\ Len(site.robots.sitemaps) > 0
       THEN site.robots.sitemaps
       ELSE commonSitemapUrls

\* the stated verdict on robots.txt
RobotsVerdictStated(r, robots) ==
    LET issues == IssuesOfCategory(r, "robots")
        file == RecordsNamed(r, "Robots.txt File")
    IN  /\ Len(file) = 1
        /\ IF ~robots.ok \/ robots.status \notin {200, 404} THEN
              HasIssue(issues, "error", "high") /\ file[1].status = "failed"
           ELSE IF robots.status = 404 THEN
              HasIssue(issues, "warning", "medium") /\ file[1].status = "warning"
           ELSE IF robots.hasUserAgent THEN
              /\ file[1].status = "passed"
              /\ \A k \in DOMAIN issues : issues[k].type \notin {"error", "warning"}
           ELSE \E k \in DOMAIN issues : issues[k].type = "warning"

\* the stated verdict on the sitemap, when every probed url answers alike
SitemapVerdictStated(r, site) ==
    LET issues == IssuesOfCategory(r, "sitemap")
        records == RecordsNamed(r, "XML Sitemap")
        answers == {site.sitemaps[u] : u \in Range(ProbedSitemaps(site))}
    IN  /\ (\A a \in answers : ~a.ok \/ a.status \notin {200, 404}) =>
              HasIssue(issues, "error", "high")
        /\ (\A a \in answers : a.ok /\ a.status = 404) =>
              HasIssue(issues, "warning", "medium")
        /\ (\A a \in answers : a.ok /\ a.status = 200 /\ a.xml) =>
              /\ \E k \in DOMAIN records : records[k].status = "passed"
              /\ issues = <<>>
        /\ (\A a \in answers : a.ok /\ a.status = 200 /\ ~a.xml) =>
              \E k \in DOMAIN issues : issues[k].type = "warning"

\* C24: the site module's verdicts on robots.txt and on the sitemap alike: a
\* 404 answer gives a Warning/medium issue; another non-200 answer or a
\* retrieval error gives an Error/high issue; a 200 answer that is parseable
\* gives a passed verdict; a 200 answer that is not parseable gives a Warning.
C24_RobotsAndSitemapVerdicts ==
    \A i \in DOMAIN reports :
        reports[i].module = "site" =>
            /\ RobotsVerdictStated(reports[i], input.site.robots)
            /\ SitemapVerdictStated(reports[i], input.site)


(***************************************************************************)
(* PROPERTIES OF A CALL WITH ITS RETRIEVALS (SpecLive)                     *)
(***************************************************************************)
\* C25: every analyze call eventually returns a Report, given that every
\* network attempt eventually succeeds, fails or is aborted by its timeout: a
\* fetchWithProxy call makes at most 5 attempts (1 direct and 4 relays) and then
\* returns or throws, analyzeContent makes at most 16 fetchWithProxy calls (the
\* seed and 15 candidates), and no analyze entry point loops or waits forever.
C25_EveryCallReturns ==
    /\ [](Len(log) + (IF fpc \in {"fetching", "reading"} THEN 1 ELSE 0) <= 5)
    /\ [](modName = "blog" => awaits.settled + (IF fpc = "idle" THEN 0 ELSE 1) <= 16)
    /\ (fpc = "fetching") ~> (fpc \in {"returned", "thrown"})
    /\ Awaiting ~> (~Awaiting /\ Len(reports) = Len(calls))

\* C25 witness: analyzeContent has returned its Report after 16 fetchWithProxy
\* calls
C25_ReturnedAfterSixteen ==
    /\ modName = "blog"
    /\ awaits.settled = 16
    /\ Len(reports) = 1
    /\ ~Awaiting


(***************************************************************************)
(* PROPERTIES OF THE QUICK-WINS AND PAGE-SPEED REPORTS (Spec)              *)
(***************************************************************************)
\* the implementation plan of a quick-wins Report partitions its quick wins:
\* every quick win is in exactly one of the three lists, the lists hold nothing
\* else, and their lengths sum to quickWins.length
PlanPartitions(r) ==
    LET quickWins == r.issues
        plan == r.extra.implementationPlan
        lists == <<plan.immediate, plan.shortTerm, plan.longTerm>>
    IN  /\ \A k \in DOMAIN quickWins :
              Cardinality({l \in 1..3 : quickWins[k] \in Range(lists[l])}) = 1
        /\ \A l \in 1..3 : Range(lists[l]) \subseteq Range(quickWins)
        /\ Len(plan.immediate) + Len(plan.shortTerm) + Len(plan.longTerm) = Len(quickWins)

\* C26 as stated: in every quick-wins Report, on the success and on the failure
\* path, the implementation plan partitions the quick wins.
C26_PlanPartitions ==
    \A i \in DOMAIN reports :
        reports[i].module = "quickWins" => PlanPartitions(reports[i])

\* C26 amended: on the success path the implementation plan partitions the
\* quick wins; the Report of the failure path has the one quick win 'Analysis
\* failed' and three empty lists.
C26_PlanPartitionsOnSuccess ==
    \A i \in DOMAIN reports :
        reports[i].module = "quickWins" =>
            IF reports[i].path = "success" THEN PlanPartitions(reports[i])
            ELSE /\ Len(reports[i].issues) = 1
                 /\ reports[i].extra.implementationPlan = [immediate |-> <<>>, shortTerm |-> <<>>, longTerm |-> <<>>]

\* C26 witness: a Report of the success path with a quick win in each list
C26_ThreeLists ==
    \E i \in DOMAIN reports :
        /\ reports[i].module = "quickWins"
        /\ reports[i].path = "success"
        /\ reports[i].extra.implementationPlan.immediate # <<>>
        /\ reports[i].extra.implementationPlan.shortTerm # <<>>
        /\ reports[i].extra.implementationPlan.longTerm # <<>>



(***************************************************************************)
(* PROPERTIES OF THE ISSUES AND THE RECORDS OF ONE REPORT (Spec)           *)
(***************************************************************************)

\* the issue has its record: an entry of allChecks whose name is the issue's
\* checkName and whose status is the issue's status
Recorded(r, issue) ==
    \E k \in DOMAIN ChecksOfReport(r) :
        /\ ChecksOfReport(r)[k].name = issue.checkName
        /\ ChecksOfReport(r)[k].status = issue.status

\* C27: in every Report of the technical module, every Issue of issues has an
\* entry in allChecks with name = issue.checkName and status = issue.status.
C27_IssuesRecorded ==
    \A i \in DOMAIN reports :
        reports[i].module = "technical" =>
            \A j \in DOMAIN reports[i].issues : Recorded(reports[i], reports[i].issues[j])

\* C27 as the code has it: the same for every Issue but the one of a page
\* without a robots meta tag, 'No robots restrictions found', whose checkName
\* 'Robots Meta' is the name of no record.
C27_IssuesRecordedButRobotsMeta ==
    \A i \in DOMAIN reports :
        reports[i].module = "technical" =>
            /\ \A j \in DOMAIN reports[i].issues :
                   reports[i].issues[j].checkName # "Robots Meta" => Recorded(reports[i], reports[i].issues[j])
            /\ RecordsNamed(reports[i], "Robots Meta") = <<>>

\* C27 happens: a technical Report of a page with a valid and an invalid
\* script, whose two Structured Data issues, one failed and one passed, both
\* have their record
C27_TwoVerdictsRecorded ==
    \E i \in DOMAIN reports :
        /\ reports[i].module = "technical"
        /\ reports[i].path = "success"
        /\ Len(StructuredDataIssues(reports[i])) = 2
        /\ \A j \in DOMAIN StructuredDataIssues(reports[i]) :
               Recorded(reports[i], StructuredDataIssues(reports[i])[j])


\* the names of the ten checks of the quick-wins analyzer, in the order of the code
QuickWinCheckNames ==
    <<"Title Tag", "Meta Description", "HTTPS Security", "Mobile Viewport", "H1 Heading",
      "Image Alt Text", "Page Speed", "Canonical URL", "Language Declaration", "Social Media Tags">>

\* the records of a Report that did not pass
NotPassed(r) == SelectSeq(ChecksOfReport(r), LAMBDA x : x.status # "passed")

\* the place of a check in the order of the code (0: not one of the ten)
CheckOrder(name) ==
    IF \E k \in DOMAIN QuickWinCheckNames : QuickWinCheckNames[k] = name
       THEN CHOOSE k \in DOMAIN QuickWinCheckNames : QuickWinCheckNames[k] = name
       ELSE 0

\* C28: in every quick-wins Report of the success path allChecks has exactly
\* ten records, with the ten names in the order of the code; on both paths
\* quickWins has as many elements as there are records whose status is not
\* 'passed', and each quick win's checkName is the name of such a record;
\* quickWins is ordered by priority, highest first, and quick wins of equal
\* priority keep the order of their checks.
C28_QuickWinsAndRecords ==
    \A i \in DOMAIN reports :
        reports[i].module = "quickWins" =>
            LET r == reports[i]
                quickWins == r.issues
            IN  /\ r.path = "success" =>
                       [k \in DOMAIN ChecksOfReport(r) |-> ChecksOfReport(r)[k].name] = QuickWinCheckNames
                /\ Len(quickWins) = Len(NotPassed(r))
                /\ \A j \in DOMAIN quickWins :
                       \E k \in DOMAIN NotPassed(r) : NotPassed(r)[k].name = quickWins[j].checkName
                /\ \A j, k \in DOMAIN quickWins :
                       j < k =>
                           \/ quickWins[j].priority > quickWins[k].priority
                           \/ /\ quickWins[j].priority = quickWins[k].priority
                              /\ CheckOrder(quickWins[j].checkName) < CheckOrder(quickWins[k].checkName)

\* C28 happens: a success Report with two quick wins of equal priority in the
\* order of their checks, after a quick win of higher priority whose check
\* comes later in the code
C28_TieKeepsCheckOrder ==
    \E i \in DOMAIN reports :
        /\ reports[i].module = "quickWins"
        /\ reports[i].path = "success"
        /\ \E j, k \in DOMAIN reports[i].issues :
               /\ j < k
               /\ reports[i].issues[j].priority = reports[i].issues[k].priority
        /\ \E j, k \in DOMAIN reports[i].issues :
               /\ j < k
               /\ CheckOrder(reports[i].issues[j].checkName) > CheckOrder(reports[i].issues[k].checkName)


(***************************************************************************)
(* PROPERTIES OF THE SITEMAP OUTCOME OF THE SITE MODULE (Spec)             *)
(***************************************************************************)

\* sitemapValid => sitemapAccessible => sitemapExists, and the same of robots.txt
FlagsOrdered(crawlability) ==
    /\ crawlability.sitemap.valid => crawlability.sitemap.accessible
    /\ crawlability.sitemap.accessible => crawlability.sitemap.exists
    /\ crawlability.robots.valid => crawlability.robots.accessible
    /\ crawlability.robots.accessible => crawlability.robots.exists

\* the Warning issues of category sitemap in a Report
SitemapWarnings(r) == SelectSeq(IssuesOfCategory(r, "sitemap"), LAMBDA x : x.type = "warning")

\* a probed sitemap url answers 200 with content that is no sitemap
SomeProbedInvalid(site) ==
    \E k \in DOMAIN ProbedSitemaps(site) :
        LET a == site.sitemaps[ProbedSitemaps(site)[k]] IN a.ok /\ a.status = 200 /\ ~a.xml

Passed(r, name) == \E k \in DOMAIN RecordsNamed(r, name) : RecordsNamed(r, name)[k].status = "passed"

\* C30: in every page-speed Report of a page that was retrieved, the metrics
\* flags agree with the verdicts of the checks computed from the same response
\* headers: metrics.compressionEnabled is true exactly when the 'Text
\* Compression' check passed, metrics.cacheHeaders exactly when the 'Browser
\* Caching' check passed.
C30_MetricsAgreeWithChecks ==
    \A i \in DOMAIN reports :
        (reports[i].module = "pageSpeed" /\ reports[i].fetched) =>
            /\ reports[i].extra.metrics.compressionEnabled <=> Passed(reports[i], "Text Compression")
            /\ reports[i].extra.metrics.cacheHeaders <=> Passed(reports[i], "Browser Caching")

\* C30 of the expressions of the try block alone, whether or not a Report
\* carries their values: for the headers of every retrieval, the flags of the
\* metrics literal are the conditions of the two checks.
C30_TryBlockAgrees ==
    input.net.ok =>
        /\ pageSpeedMetrics(input.net).compressionEnabled <=> compressionEnabled(input.net.headers)
        /\ pageSpeedMetrics(input.net).cacheHeaders <=> hasCacheHeaders(input.net.headers)

=============================================================================
